---- MODULE Spec2Model ----
(***************************************************************************)
(* A model of the multi-agent pharmaceutical query pipeline:               *)
(*   run_langgraph.py      MultiAgentWorkflow (LangGraph, five nodes)       *)
(*   streamlit_app.py      the Streamlit front end and its session state    *)
(*   agents/*.py           orchestrator, CAPA, Neo4j, vector, email agents  *)
(*   mcp_modules/*.py      the backing-store modules                        *)
(*                                                                         *)
(* Python dicts are functions over string keys, lists are sequences,        *)
(* str(e) of an exception is a string naming it.  Date strings are records  *)
(* of their shape and numeric fields so that strptime is computed.          *)
(***************************************************************************)
EXTENDS Integers, Sequences, FiniteSets, TLC

VARIABLES
    now,            \* datetime.now(): [ord |-> proleptic ordinal, sec |-> second of day]
    capaTable,      \* the records read_capa_data returns when the table is readable
    capaReadable,   \* FALSE: the file is missing / empty / the read raised
    capaQuery,      \* the query text handed to CapaAgent.process_query
    capaPc,         \* "idle" before process_query is called, "done" after it returned
    capaOut,        \* CapaAgent.process_query's result (the empty dict before the call)
    neoStore,       \* MCPNeo4jModule.mock_data["investigations"]
    neoCalls,       \* the number of calls made on the graph store so far
    neoOut,         \* the last call on the graph store: its arguments and what it returned
    vecOut,         \* the last call of VectorAgent.search_clinical_trials, likewise
    orchOut,        \* the last call of OrchestratorAgent.break_down_query, likewise
    sumOut,         \* the last call of OrchestratorAgent.generate_final_summary, likewise
    active,         \* the nodes of the compiled graph that are due to run
    executed,       \* the nodes that have run, in the order they ran
    state,          \* the WorkflowState the nodes read and write
    runPc,          \* MultiAgentWorkflow.run: "idle", "running", "finished" or "returned"
    runResult,      \* what run returned
    session,        \* st.session_state of the Streamlit session
    page,           \* the page: the text of the query box, the buttons the last script
                    \* run rendered enabled, and whether a script run is pending
    emailLog,       \* the calls of send_email made by the script, in order
    clicks,         \* what the user did on the page, in order
    displayed,          \* the workflow results the page displayed at each of these moments
    workLog,        \* the script passes that ran the workflow, in order
    vecStore,       \* MCPVectorModule.mock_data
    vecCalls,       \* the number of calls made on the vector store so far
    embIn,          \* what a call of the embeddings handler meets: the text, what the
                    \* embedding API, sentence-transformers and numpy do
    embOut,         \* the last call that needed an embedding, and what it returned
    mailModule,     \* the MCPEmailModule: mock_mode, use_tls, whether credentials are set
    mockLog,        \* the entries of logs/mock_emails.log
    smtpLog,        \* the SMTP sessions opened so far, each the calls made on the server
    mailCalls,      \* the number of send_email calls so far
    mailOut         \* the last send_email call: its email_data and what came of it

capaVars == <<now, capaTable, capaReadable, capaQuery, capaPc, capaOut>>

neoVars == <<neoStore, neoCalls, neoOut>>

runVars == <<vecOut, orchOut, sumOut, active, executed, state, runPc, runResult>>

appVars == <<session, page, emailLog, clicks, displayed, workLog>>

vecVars == <<vecStore, vecCalls>>

embVars == <<embIn, embOut>>

mailVars == <<mailModule, mockLog, smtpLog, mailCalls, mailOut>>

vars == <<now, capaTable, capaReadable, capaQuery, capaPc, capaOut, neoStore, neoCalls, neoOut,
          vecOut, orchOut, sumOut, active, executed, state, runPc, runResult,
          session, page, emailLog, clicks, displayed, workLog, vecStore, vecCalls,
          embIn, embOut, mailModule, mockLog, smtpLog, mailCalls, mailOut>>

-----------------------------------------------------------------------------
(* Bounds of the model *)

MaxCapaRecords == 2
MaxLongTable == 6
MaxNeoCalls == 2
MaxIdList == 2
MaxRunRecords == 2

\* the number of things the user does on the page
MaxClicks == 5

\* the number of calls made on the vector store, and the number of documents it holds
MaxVecCalls == 3
MaxDocs == 5

\* the number of send_email calls made on one MCPEmailModule
MaxMailCalls == 2

-----------------------------------------------------------------------------
(* Python helpers *)

\* dict.get(key, default)
Get(d, k, default) == IF k \in DOMAIN d THEN d[k] ELSE default

\* d[key] = value
Put(d, k, v) == [x \in (DOMAIN d) \cup {k} |-> IF x = k THEN v ELSE d[x]]

\* the empty dict {}
EmptyDict == [x \in {} |-> TRUE]

\* every list of at most n elements of S
SeqsUpTo(S, n) == UNION {[1..k -> S] : k \in 0..n}

\* str.upper() on the status texts the tables hold
Upper(s) ==
    CASE s \in {"OPEN", "Open", "open"} -> "OPEN"
      [] s \in {"CLOSED", "Closed", "closed"} -> "CLOSED"
      [] s \in {"UNKNOWN", "unknown"} -> "UNKNOWN"
      [] s \in {"IN_PROGRESS", "in_progress"} -> "IN_PROGRESS"
      [] s \in {"DONE", "Done", "done"} -> "DONE"
      [] s \in {"WORK IN PROGRESS", "work in progress"} -> "WORK IN PROGRESS"
      [] OTHER -> s

------------------------------------------------------------------------
\* a Python local: value is computed once, when it is assigned, and Rest reads it
Local(value, Rest(_)) == CHOOSE result \in {Rest(v) : v \in {value}} : TRUE

-----
(* datetime: the proleptic Gregorian calendar of Python's datetime *)

IsLeap(y) == (y % 4 = 0) /\ ((y % 100 # 0) \/ (y % 400 = 0))

DaysInMonth(y, m) ==
    IF m = 2 THEN (IF IsLeap(y) THEN 29 ELSE 28)
    ELSE IF m \in {4, 6, 9, 11} THEN 30 ELSE 31

DaysBeforeMonth(y, m) ==
    LET cum == <<0, 31, 59, 90, 120, 151, 181, 212, 243, 273, 304, 334>>
    IN  cum[m] + (IF m > 2 /\ IsLeap(y) THEN 1 ELSE 0)

\* date(y, m, d).toordinal()
ToOrdinal(y, m, d) ==
    LET p == y - 1
    IN  p * 365 + (p \div 4) - (p \div 100) + (p \div 400) + DaysBeforeMonth(y, m) + d

ValidDate(y, m, d) == /\ y \in 1..9999
                      /\ m \in 1..12
                      /\ d >= 1
                      /\ d <= DaysInMonth(y, m)

\* a date string: shape "dash" is a-b-c, "slash" is a/b/c, with an optional
\* " H:M:S" part (sec >= 0 is its second of the day, -1 when absent);
\* "blank" is whitespace only, "text" is any other text, "" the empty string
DateStr(shape, a, b, c, sec) == [shape |-> shape, a |-> a, b |-> b, c |-> c, sec |-> sec]

EmptyStr == DateStr("", 0, 0, 0, -1)
BlankStr == DateStr("blank", 0, 0, 0, -1)
TextStr == DateStr("text", 0, 0, 0, -1)
\* the key is absent or holds None
NoneValue == DateStr("None", 0, 0, 0, -1)

\* bool(date_str)
Truthy(s) == s.shape \notin {"", "None"}

ParseFail == [ok |-> FALSE, ord |-> 0, sec |-> 0]

ParseOk(y, m, d, sec) == [ok |-> TRUE, ord |-> ToOrdinal(y, m, d), sec |-> sec]

\* datetime.strptime(date_str.strip(), fmt): ok = FALSE is ValueError
Strptime(s, fmt) ==
    CASE fmt = "%Y-%m-%d" ->
            IF s.shape = "dash" /\ s.sec < 0 /\ ValidDate(s.a, s.b, s.c)
            THEN ParseOk(s.a, s.b, s.c, 0) ELSE ParseFail
      [] fmt = "%m/%d/%Y" ->
            IF s.shape = "slash" /\ s.sec < 0 /\ ValidDate(s.c, s.a, s.b)
            THEN ParseOk(s.c, s.a, s.b, 0) ELSE ParseFail
      [] fmt = "%d/%m/%Y" ->
            IF s.shape = "slash" /\ s.sec < 0 /\ ValidDate(s.c, s.b, s.a)
            THEN ParseOk(s.c, s.b, s.a, 0) ELSE ParseFail
      [] fmt = "%Y-%m-%d %H:%M:%S" ->
            IF s.shape = "dash" /\ s.sec >= 0 /\ ValidDate(s.a, s.b, s.c)
            THEN ParseOk(s.a, s.b, s.c, s.sec) ELSE ParseFail
      [] fmt = "%m/%d/%Y %H:%M:%S" ->
            IF s.shape = "slash" /\ s.sec >= 0 /\ ValidDate(s.c, s.a, s.b)
            THEN ParseOk(s.c, s.a, s.b, s.sec) ELSE ParseFail
      [] OTHER -> ParseFail

\* a >= b on datetimes
DateGE(a, b) == (a.ord > b.ord) \/ (a.ord = b.ord /\ a.sec >= b.sec)

\* t - timedelta(days=n)
MinusDays(t, n) == [ord |-> t.ord - n, sec |-> t.sec]

-----------------------------------------------------------------------------
(* agents/capa_agent.py and mcp_modules/mcp_capa *)

\* timedelta(days=365) of process_query
WindowDays == 365

DateFormats == <<"%Y-%m-%d", "%m/%d/%Y", "%d/%m/%Y", "%Y-%m-%d %H:%M:%S", "%m/%d/%Y %H:%M:%S">>

\* the loop over date_formats: the first format that parses decides
RECURSIVE TryFormats(_, _, _)
TryFormats(date_str, cutoff_date, i) ==
    IF i > Len(DateFormats) THEN FALSE
    ELSE LET parsed_date == Strptime(date_str, DateFormats[i])
         IN  IF parsed_date.ok THEN DateGE(parsed_date, cutoff_date)
             ELSE TryFormats(date_str, cutoff_date, i + 1)

IsWithinTimeframe(date_str, cutoff_date) ==
    IF ~Truthy(date_str) THEN FALSE ELSE TryFormats(date_str, cutoff_date, 1)

\* IsOpenCapa with the status compared as written, .upper() forgotten
IsOpenCapaCaseSensitive(capa, one_year_ago) ==
    /\ Get(capa, "status", "") = "OPEN"
    /\ IsWithinTimeframe(Get(capa, "date", NoneValue), one_year_ago)

\* the condition of the filter loop of process_query
IsOpenCapa(capa, one_year_ago) ==
    /\ Upper(Get(capa, "status", "")) = "OPEN"
    /\ IsWithinTimeframe(Get(capa, "date", NoneValue), one_year_ago)

\* the filter loop of process_query, records i.. of capa_data appended to open_capas
RECURSIVE FilterOpenCapas(_, _, _, _)
FilterOpenCapas(capa_data, one_year_ago, i, open_capas) ==
    IF i > Len(capa_data) THEN open_capas
    ELSE FilterOpenCapas(capa_data, one_year_ago, i + 1,
            IF IsOpenCapa(capa_data[i], one_year_ago)
            THEN Append(open_capas, capa_data[i]) ELSE open_capas)

\* MCPCapaModule.read_capa_data: every failure is logged and becomes []
ReadCapaData(readable, table) == IF readable THEN table ELSE <<>>

NoCapaDataError == "No CAPA data found or file not accessible"

\* the number of CAPA records the email body lists (details[:5])
MaxDetailsShown == 5

\* ProcessQuery with the details cut to the first MaxDetailsShown records
ProcessQueryCapped(query, readable, table, t) ==
    LET capa_data == ReadCapaData(readable, table)
    IN  IF capa_data = <<>>
        THEN [success |-> FALSE, error |-> NoCapaDataError, count |-> 0, details |-> <<>>]
        ELSE LET open_capas == FilterOpenCapas(capa_data, MinusDays(t, WindowDays), 1, <<>>)
                 shown == IF Len(open_capas) > MaxDetailsShown
                          THEN SubSeq(open_capas, 1, MaxDetailsShown) ELSE open_capas
             IN  [success |-> TRUE, count |-> Len(open_capas), details |-> shown,
                  query_processed |-> query, analysis_date |-> t]

\* CapaAgent.process_query
ProcessQuery(query, readable, table, t) ==
    LET capa_data == ReadCapaData(readable, table)
    IN  IF capa_data = <<>>
        THEN [success |-> FALSE, error |-> NoCapaDataError, count |-> 0, details |-> <<>>]
        ELSE LET open_capas == FilterOpenCapas(capa_data, MinusDays(t, WindowDays), 1, <<>>)
             IN  [success |-> TRUE, count |-> Len(open_capas), details |-> open_capas,
                  query_processed |-> query, analysis_date |-> t]

-----------------------------------------------------------------------------
(* mcp_modules/mcp_neo4j.py and agents/neo4j_agent.py *)

\* str.lower() on the brand names in use
Lower(s) ==
    CASE s \in {"Avino", "AVINO", "avino"} -> "avino"
      [] s \in {"Belmo", "belmo"} -> "belmo"
      [] OTHER -> s

Inv(id, capa_id, brand, batch_number, pdf_link) ==
    [id |-> id, capa_id |-> capa_id, brand |-> brand, batch_number |-> batch_number,
     pdf_link |-> pdf_link]

\* mock_data["investigations"] of _initialize_mock_data
MockInvestigations ==
    << Inv("INV001", "CAPA2024001", "Avino", "AV2024001",
           "https://documents.company.com/investigations/INV001.pdf"),
       Inv("INV002", "CAPA2024002", "Avino", "AV2024002",
           "https://documents.company.com/investigations/INV002.pdf"),
       Inv("INV003", "CAPA2024003", "Avino", "AV2024003",
           "https://documents.company.com/investigations/INV003.pdf") >>

\* a second store: another brand on a CAPA of Avino, a brand in capitals, a record
\* without a PDF link and a record without brand and CAPA
OtherInvestigations ==
    << Inv("INV001", "CAPA2024001", "Avino", "AV2024001",
           "https://documents.company.com/investigations/INV001.pdf"),
       Inv("INV004", "CAPA2024001", "Belmo", "BE2024001",
           "https://documents.company.com/investigations/INV004.pdf"),
       Inv("INV005", "CAPA2024001", "AVINO", "AV2024009", ""),
       [id |-> "INV006", pdf_link |-> "ftp://documents.company.com/INV006.doc"] >>

\* mock_data["capas"]
MockCapas ==
    << [id |-> "CAPA2024001", title |-> "Improve Batch Documentation Process", status |-> "Open"],
       [id |-> "CAPA2024002", title |-> "Enhance Manufacturing Controls", status |-> "In Progress"] >>

\* mock_data["batches"]
MockBatches ==
    << [batch_number |-> "AV2024001", brand |-> "Avino", status |-> "Released"],
       [batch_number |-> "AV2024002", brand |-> "Avino", status |-> "Released"],
       [batch_number |-> "AV2024003", brand |-> "Avino", status |-> "Quarantine"] >>

\* an Optional[List[str]] argument: None, or a list
NoneList == [none |-> TRUE, list |-> <<>>]
List(l) == [none |-> FALSE, list |-> l]

\* bool(capa_ids)
ListTruthy(x) == ~x.none /\ x.list # <<>>

\* capa_ids or []
OrEmpty(x) == IF ListTruthy(x) THEN x.list ELSE <<>>

\* x in list
InList(x, l) == \E i \in DOMAIN l : l[i] = x

\* the brand test of query_investigations, the two names compared as written
BrandMismatchCaseSensitive(inv, brand_name) == Get(inv, "brand", "") # brand_name

\* the brand test of query_investigations
BrandMismatch(inv, brand_name) == Lower(Get(inv, "brand", "")) # Lower(brand_name)

\* the loop of query_investigations over investigations[i..], matches appended to results
RECURSIVE QueryLoop(_, _, _, _, _)
QueryLoop(investigations, brand_name, capa_ids, i, results) ==
    IF i > Len(investigations) THEN results
    ELSE LET inv == investigations[i]
         IN  QueryLoop(investigations, brand_name, capa_ids, i + 1,
                IF BrandMismatch(inv, brand_name) THEN results
                ELSE IF ListTruthy(capa_ids) /\ ~InList(Get(inv, "capa_id", "None"), capa_ids.list)
                     THEN results
                     ELSE Append(results, inv))

\* MCPNeo4jModule.query_investigations; fails: the query raised, which is logged and becomes []
QueryInvestigations(investigations, brand_name, capa_ids, fails) ==
    IF fails THEN <<>>
    ELSE QueryLoop(investigations, brand_name, capa_ids, 1, <<>>)

\* the loop of get_capa_details over mock_data["capas"]: the first match, or {}
RECURSIVE GetCapaDetailsFrom(_, _)
GetCapaDetailsFrom(capa_id, i) ==
    IF i > Len(MockCapas) THEN EmptyDict
    ELSE IF MockCapas[i].id = capa_id THEN MockCapas[i]
    ELSE GetCapaDetailsFrom(capa_id, i + 1)

\* MCPNeo4jModule.get_capa_details
GetCapaDetails(capa_id) == GetCapaDetailsFrom(capa_id, 1)

\* the loop of get_batch_info over mock_data["batches"]: the first match, or {}
RECURSIVE GetBatchInfoFrom(_, _)
GetBatchInfoFrom(batch_number, i) ==
    IF i > Len(MockBatches) THEN EmptyDict
    ELSE IF MockBatches[i].batch_number = batch_number THEN MockBatches[i]
    ELSE GetBatchInfoFrom(batch_number, i + 1)

\* MCPNeo4jModule.get_batch_info
GetBatchInfo(batch_number) == GetBatchInfoFrom(batch_number, 1)

\* Neo4jAgent._validate_pdf_link: startswith http:// or https://, and endswith .pdf
ValidatePdfLink(pdf_link) ==
    pdf_link \in { "https://documents.company.com/investigations/INV001.pdf",
                   "https://documents.company.com/investigations/INV002.pdf",
                   "https://documents.company.com/investigations/INV003.pdf",
                   "https://documents.company.com/investigations/INV004.pdf",
                   "https://documents.company.com/clinical/PK_study_2024.pdf" }

\* Neo4jAgent._enrich_investigation_data: the record it is given, with the keys it sets
EnrichInvestigationData(investigation) ==
    LET capa_id == Get(investigation, "capa_id", "")
        withCapa == IF capa_id # ""
                    THEN Put(investigation, "capa_details", GetCapaDetails(capa_id))
                    ELSE investigation
        batch_number == Get(investigation, "batch_number", "")
        withBatch == IF batch_number # ""
                     THEN Put(withCapa, "batch_info", GetBatchInfo(batch_number))
                     ELSE withCapa
        pdf_link == Get(investigation, "pdf_link", "")
    IN  IF pdf_link # ""
        THEN Put(withBatch, "pdf_accessible", ValidatePdfLink(pdf_link))
        ELSE withBatch

\* the list comprehension of a Python loop: f applied to every element
RECURSIVE EnrichAll(_, _, _)
EnrichAll(investigations, i, enriched_investigations) ==
    IF i > Len(investigations) THEN enriched_investigations
    ELSE EnrichAll(investigations, i + 1,
            Append(enriched_investigations, EnrichInvestigationData(investigations[i])))

\* Neo4jAgent.get_investigations: its result
GetInvestigations(store, brand_name, capa_ids, fails) ==
    Local(QueryInvestigations(store, brand_name, capa_ids, fails),
          LAMBDA investigations :
            IF investigations = <<>>
            THEN [success |-> TRUE, investigations |-> <<>>, count |-> 0,
                  brand |-> brand_name, capa_ids |-> OrEmpty(capa_ids)]
            ELSE Local(EnrichAll(investigations, 1, <<>>),
                       LAMBDA enriched_investigations :
                         [success |-> TRUE, investigations |-> enriched_investigations,
                          count |-> Len(enriched_investigations), brand |-> brand_name,
                          capa_ids |-> OrEmpty(capa_ids), query_timestamp |-> "timestamp"]))

\* Neo4jAgent.get_investigations: the store after it; the records it returned are the
\* store's own dicts, which _enrich_investigation_data writes to
StoreAfterGetInvestigations(store, brand_name, capa_ids, fails) ==
    Local(QueryInvestigations(store, brand_name, capa_ids, fails),
          LAMBDA investigations :
            [i \in DOMAIN store |->
                IF InList(store[i], investigations)
                THEN EnrichInvestigationData(store[i]) ELSE store[i]])

-----------------------------------------------------------------------------
(* models/embeddings_handler.py, mcp_modules/mcp_vector.py, agents/vector_agent.py *)

\* EmbeddingsHandler.generate_embedding: which embedding it returns, "None" for none.
\* blank: the text is empty or whitespace; api_ok: the Gemini call gave an embedding
GenerateEmbedding(blank, api_ok, fallback_enabled) ==
    IF blank THEN "None"
    ELSE IF api_ok THEN "gemini"
    ELSE IF fallback_enabled THEN "fallback"
    ELSE "None"

\* an EmbeddingsHandler whose fallback is switched off
FallbackDisabled == FALSE

\* EmbeddingsHandler.fallback_enabled, set in __init__
FallbackEnabled == TRUE

\* embeddings: None, or a list of dimension floats and where it came from
NoEmbedding == [kind |-> "None", dimension |-> 0]
Embedding(kind, dimension) == [kind |-> kind, dimension |-> dimension]

\* _generate_gemini_embedding. api: what embed_content does ("raises", which
\* _sync_gemini_embedding turns into None), or the response it returns
GeminiEmbedding(api) ==
    CASE api = "raises" -> NoEmbedding
      [] api = "response without embedding" -> NoEmbedding
      [] api = "response with empty embedding" -> Embedding("gemini", 0)
      [] api = "response with embedding" -> Embedding("gemini", 768)

\* bool(embedding)
EmbeddingTruthy(embedding) == embedding.kind # "None" /\ embedding.dimension > 0

\* _generate_mock_embedding. np: numpy "works" or "raises"
MockEmbedding(np) ==
    IF np = "works" THEN Embedding("mock", 768) ELSE Embedding("zero vector", 768)

\* _generate_fallback_embedding. st: sentence-transformers "encodes", is missing
\* ("ImportError") or "raises"
FallbackEmbedding(st, np) ==
    IF st = "encodes" THEN Embedding("all-MiniLM-L6-v2", 384) ELSE MockEmbedding(np)

\* the list EmbeddingsHandler.generate_embedding returns
EmbeddingVector(blank, api, st, np, fallback_enabled) ==
    LET branch == GenerateEmbedding(blank, EmbeddingTruthy(GeminiEmbedding(api)), fallback_enabled)
    IN  CASE branch = "None" -> NoEmbedding
          [] branch = "gemini" -> GeminiEmbedding(api)
          [] branch = "fallback" -> FallbackEmbedding(st, np)

Doc(id, source, brand, score) ==
    [id |-> id, content |-> id, metadata |-> [source |-> source, brand |-> brand], score |-> score]

\* _initialize_mock_vector_data (scores in hundredths; the embedding vectors, which
\* _calculate_similarity does not read, are left out)
MockVectorData ==
    << Doc("doc_001", "https://documents.company.com/investigations/INV001.pdf", "Avino", 95),
       Doc("doc_002", "https://documents.company.com/investigations/INV002.pdf", "Avino", 89),
       Doc("doc_003", "https://documents.company.com/investigations/INV003.pdf", "Avino", 82),
       Doc("doc_004", "https://documents.company.com/clinical/PK_study_2024.pdf", "Avino", 76) >>

\* value.lower() in str(field).lower(), on the brand names in use
LowerIn(value, field) == (value = "") \/ (Lower(value) = Lower(field))

\* MatchesFilter with a document that lacks a filtered key let through
MatchesFilterLenient(doc, filter_criteria) ==
    \A key \in DOMAIN filter_criteria :
        key \in DOMAIN doc.metadata => LowerIn(filter_criteria[key], doc.metadata[key])

\* the filter of vector_search: every key of filter_criteria is in the metadata and matches
MatchesFilter(doc, filter_criteria) ==
    \A key \in DOMAIN filter_criteria :
        /\ key \in DOMAIN doc.metadata
        /\ LowerIn(filter_criteria[key], doc.metadata[key])

\* the relevance threshold of vector_search, 0.5
RelevanceThreshold == 50

\* list.sort(key=score, reverse=True), which is stable: a result stands behind the
\* results of higher score and behind the earlier results of its own score
RankByScore(results, i) ==
    1 + Cardinality({j \in 1..Len(results) :
                        \/ results[j].score > results[i].score
                        \/ results[j].score = results[i].score /\ j < i})

SortByScore(results) ==
    [k \in 1..Len(results) |->
        results[CHOOSE i \in 1..Len(results) : RankByScore(results, i) = k]]

\* the loop of vector_search over mock_data[i..]; scores[i] is what _calculate_similarity
\* returns for document i
RECURSIVE SearchLoop(_, _, _, _, _)
SearchLoop(mock_data, filter_criteria, scores, i, results) ==
    IF i > Len(mock_data) THEN results
    ELSE SearchLoop(mock_data, filter_criteria, scores, i + 1,
            IF ~MatchesFilter(mock_data[i], filter_criteria) THEN results
            ELSE IF scores[i] > RelevanceThreshold
                 THEN Append(results, Put(mock_data[i], "score", scores[i]))
                 ELSE results)

\* results[:top_k]
FirstK(results, top_k) == SubSeq(results, 1, IF Len(results) < top_k THEN Len(results) ELSE top_k)

\* MCPVectorModule.vector_search; fails: the search raised, which is logged and becomes []
VectorSearch(mock_data, filter_criteria, top_k, scores, fails) ==
    IF fails THEN <<>>
    ELSE Local(SearchLoop(mock_data, filter_criteria, scores, 1, <<>>),
               LAMBDA results : FirstK(SortByScore(results), top_k))

\* the confidence above which _generate_summary uses a result, 0.7
HighConfidence == 70

\* the ids of the results _generate_summary builds its content from
RECURSIVE ContentPieces(_, _, _)
ContentPieces(search_results, i, content_pieces) ==
    IF i > Len(search_results) THEN content_pieces
    ELSE ContentPieces(search_results, i + 1,
            IF search_results[i].score > HighConfidence
            THEN Append(content_pieces, search_results[i].content) ELSE content_pieces)

\* summary texts: "", the f-strings of _generate_summary and generate_summary, or the
\* text Gemini wrote about the content
EmptySummary == [kind |-> "empty", content |-> <<>>]
NoHighConfidenceSummary == [kind |-> "No high-confidence clinical trial data found", content |-> <<>>]

\* VectorAgent._generate_summary with EmbeddingsHandler.generate_summary
GenerateSummary(search_results, brand_name, summary_ok) ==
    LET content_pieces == ContentPieces(search_results, 1, <<>>)
    IN  IF content_pieces = <<>> THEN NoHighConfidenceSummary
        ELSE IF summary_ok THEN [kind |-> "summary by Gemini", content |-> content_pieces]
        ELSE [kind |-> "Summary generation failed", content |-> content_pieces]

\* the top_k search_clinical_trials asks for
TopK == 5

\* VectorAgent.search_clinical_trials
SearchClinicalTrials(mock_data, brand_name, pdf_links, embed_ok, scores, fails, summary_ok) ==
    LET query_embedding == GenerateEmbedding(FALSE, embed_ok, FallbackEnabled)
    IN  IF query_embedding = "None"
        THEN [success |-> FALSE, error |-> "Failed to generate query embedding",
              summary |-> EmptySummary, brand |-> brand_name, pdf_links |-> OrEmpty(pdf_links),
              documents_found |-> 0]
        ELSE Local(VectorSearch(mock_data, [brand |-> brand_name], TopK, scores, fails),
                   LAMBDA search_results :
                     IF search_results = <<>>
                     THEN [success |-> TRUE, summary |-> EmptySummary, brand |-> brand_name,
                           pdf_links |-> OrEmpty(pdf_links), documents_found |-> 0]
                     ELSE [success |-> TRUE,
                           summary |-> GenerateSummary(search_results, brand_name, summary_ok),
                           brand |-> brand_name, pdf_links |-> OrEmpty(pdf_links),
                           documents_found |-> Len(search_results),
                           search_results |-> search_results,
                           query |-> "clinical trial summary for brand"])

-----------------------------------------------------------------------------
(* agents/orchestrator.py *)

\* what json.loads gives: a JSON object (a dict) or a JSON array (a list)
JDict(d) == [type |-> "dict", d |-> d]
JList(l) == [type |-> "list", l |-> l]

\* what model.generate_content does: it raises, or it returns a response whose text is
\* empty, is not JSON, or is the JSON text of a value
ApiRaises == [kind |-> "raise"]
ApiEmptyText == [kind |-> "text", empty |-> TRUE, valid_json |-> FALSE, value |-> JList(<<>>)]
ApiNotJson == [kind |-> "text", empty |-> FALSE, valid_json |-> FALSE, value |-> JList(<<>>)]
ApiJson(v) == [kind |-> "text", empty |-> FALSE, valid_json |-> TRUE, value |-> v]

FallbackQ1 == "Q1: How many open CAPA are present in the last 1 year?"
FallbackQ2 == "Q2: Fetch Investigation details for brand 'Avino' including CAPA ID, Investigation Name, Brand, Batch Number, PDF Link"
FallbackQ3 == "Q3: Retrieve clinical trial summary for brand 'Avino' from vector database"

\* the dict of the except branch of break_down_query
FallbackBreakdown ==
    JDict([reasoning |-> "Fallback breakdown due to API error",
           sub_questions |-> <<FallbackQ1, FallbackQ2, FallbackQ3>>,
           agent_mapping |->
               [capa_agent |-> "Analyze CAPA data file for open CAPAs in specified timeframe",
                neo4j_agent |-> "Query graph database for Avino brand investigations",
                vector_agent |-> "Search embedded clinical trial documents for Avino summaries"]])

\* break_down_query with json.loads outside the try: text that is not JSON escapes
BreakDownQueryJsonUnguarded(user_query, response) ==
    IF response.kind = "raise" \/ response.empty
    THEN [raised |-> FALSE, api_calls |-> 1, value |-> FallbackBreakdown]
    ELSE IF ~response.valid_json
    THEN [raised |-> TRUE, api_calls |-> 1, value |-> JDict(EmptyDict)]
    ELSE [raised |-> FALSE, api_calls |-> 1, value |-> response.value]

\* OrchestratorAgent.break_down_query: one generate_content call inside the try, whose
\* except branch returns the fallback; raised says whether an exception leaves the method
BreakDownQuery(user_query, response) ==
    IF response.kind = "raise"
    THEN [raised |-> FALSE, api_calls |-> 1, value |-> FallbackBreakdown]
    ELSE IF response.empty
    THEN [raised |-> FALSE, api_calls |-> 1, value |-> FallbackBreakdown]
    ELSE IF ~response.valid_json
    THEN [raised |-> FALSE, api_calls |-> 1, value |-> FallbackBreakdown]
    ELSE [raised |-> FALSE, api_calls |-> 1, value |-> response.value]

\* final_summary texts: "" before consolidation, the text of the API, or the f-string
\* of an except branch with the error and the raw data it quotes
NoSummary == [kind |-> "empty"]
ApiSummary(text) == [kind |-> "api", text |-> text]
FailedSummary(error, consolidated_data) ==
    [kind |-> "Summary generation failed: ", error |-> error, raw_data |-> consolidated_data]

\* a generate_final_summary whose failure text leaves the raw data out
GenerateFinalSummaryWithoutRawData(consolidated_data, response) ==
    IF response.kind = "raise" THEN FailedSummary("API error", <<>>)
    ELSE IF response.empty THEN FailedSummary("Empty response from Gemini", <<>>)
    ELSE ApiSummary("final summary text")

\* OrchestratorAgent.generate_final_summary
GenerateFinalSummary(consolidated_data, response) ==
    IF response.kind = "raise" THEN FailedSummary("API error", consolidated_data)
    ELSE IF response.empty THEN FailedSummary("Empty response from Gemini", consolidated_data)
    ELSE ApiSummary("final summary text")

-----------------------------------------------------------------------------
(* run_langgraph.py: the graph and its five nodes *)

END == "__end__"

Nodes == {"orchestrator", "capa_agent", "neo4j_agent", "vector_agent", "consolidate"}

\* set_entry_point
EntryPoint == "orchestrator"

\* a graph whose orchestrator fans out to the CAPA and the Neo4j agent
EdgesFanOut ==
    { <<"orchestrator", "capa_agent">>, <<"orchestrator", "neo4j_agent">>,
      <<"capa_agent", "neo4j_agent">>, <<"neo4j_agent", "vector_agent">>,
      <<"vector_agent", "consolidate">>, <<"consolidate", END>> }

\* the add_edge calls of _build_workflow
Edges ==
    { <<"orchestrator", "capa_agent">>, <<"capa_agent", "neo4j_agent">>,
      <<"neo4j_agent", "vector_agent">>, <<"vector_agent", "consolidate">>,
      <<"consolidate", END>> }

\* the nodes the compiled graph schedules once node n has returned
Successors(n) == {m \in Nodes \cup {END} : <<n, m>> \in Edges}

AttributeErrorText == "'list' object has no attribute 'get'"

\* the try block of orchestrate after break_down_query returned out (or raised):
\* the breakdown is stored, then len(breakdown.get('sub_questions', [])) is logged
OrchestrateNode(st, out) ==
    IF out.raised THEN [st EXCEPT !.error = "Orchestrator error: break_down_query raised"]
    ELSE IF out.value.type # "dict"
         THEN [st EXCEPT !.breakdown = out.value,
                         !.error = "Orchestrator error: 'list' object has no attribute 'get'"]
         ELSE [st EXCEPT !.breakdown = out.value]

\* "CAPA" in question, on the sub-questions in use
ContainsCAPA(question) ==
    question \in { FallbackQ1, FallbackQ2,
                   "Q1: Count the open CAPA records of the past year",
                   "Q2: List the investigations of brand Avino with their CAPA" }

\* the loop of process_capa: the first sub-question that mentions CAPA, "" when none does
RECURSIVE FirstCapaQuestion(_, _)
FirstCapaQuestion(sub_questions, i) ==
    IF i > Len(sub_questions) THEN ""
    ELSE IF ContainsCAPA(sub_questions[i]) THEN sub_questions[i]
    ELSE FirstCapaQuestion(sub_questions, i + 1)

DefaultCapaQuery == "How many open CAPA are present in the last one year?"

\* the query process_capa hands to the CAPA agent; breakdown is a dict here
CapaQueryOf(breakdown) ==
    LET capa_query == FirstCapaQuestion(Get(breakdown.d, "sub_questions", <<>>), 1)
    IN  IF capa_query = "" THEN DefaultCapaQuery ELSE capa_query

\* process_capa raises inside its try exactly when breakdown.get does
CapaNodeRaises(st) == st.breakdown.type # "dict"

\* process_capa: the state it returns
ProcessCapaNode(st, readable, table, t) ==
    IF CapaNodeRaises(st)
    THEN [st EXCEPT !.agent_results =
              Put(@, "capa_result", [success |-> FALSE, error |-> AttributeErrorText])]
    ELSE [st EXCEPT !.agent_results =
              Put(@, "capa_result", ProcessQuery(CapaQueryOf(st.breakdown), readable, table, t))]

\* the loop of process_neo4j over details[i..]: the truthy capa_id values
RECURSIVE CollectCapaIds(_, _, _)
CollectCapaIds(details, i, capa_ids) ==
    IF i > Len(details) THEN capa_ids
    ELSE CollectCapaIds(details, i + 1,
            IF Get(details[i], "capa_id", "") # ""
            THEN Append(capa_ids, details[i].capa_id) ELSE capa_ids)

\* CapaIdsOf with every detail's capa_id kept, the empty ones too
CapaIdsOfKeepingEmpty(agent_results) ==
    LET capa_result == Get(agent_results, "capa_result", EmptyDict)
        details == Get(capa_result, "details", <<>>)
    IN  IF Get(capa_result, "success", FALSE)
        THEN [i \in 1..Len(details) |-> Get(details[i], "capa_id", "")]
        ELSE <<>>

\* the capa_ids process_neo4j passes on
CapaIdsOf(agent_results) ==
    LET capa_result == Get(agent_results, "capa_result", EmptyDict)
    IN  IF Get(capa_result, "success", FALSE) /\ Get(capa_result, "details", <<>>) # <<>>
        THEN CollectCapaIds(capa_result.details, 1, <<>>)
        ELSE <<>>

\* the brand both later agents are asked about
BrandQueried == "Avino"

\* process_neo4j: the state it returns
ProcessNeo4jNode(st, store, fails) ==
    [st EXCEPT !.agent_results =
        Put(@, "neo4j_result",
            GetInvestigations(store, BrandQueried, List(CapaIdsOf(st.agent_results)), fails))]

\* the loop of process_vector over investigations[i..]: the truthy pdf_link values
RECURSIVE CollectPdfLinks(_, _, _)
CollectPdfLinks(investigations, i, pdf_links) ==
    IF i > Len(investigations) THEN pdf_links
    ELSE CollectPdfLinks(investigations, i + 1,
            IF Get(investigations[i], "pdf_link", "") # ""
            THEN Append(pdf_links, investigations[i].pdf_link) ELSE pdf_links)

\* the pdf_links process_vector passes on
PdfLinksOf(agent_results) ==
    LET neo4j_result == Get(agent_results, "neo4j_result", EmptyDict)
    IN  IF Get(neo4j_result, "success", FALSE) /\ Get(neo4j_result, "investigations", <<>>) # <<>>
        THEN CollectPdfLinks(neo4j_result.investigations, 1, <<>>)
        ELSE <<>>

\* a process_vector that stores its result under the graph lookup's key
ProcessVectorNodeUnderNeo4jKey(st, mock_data, embed_ok, scores, fails, summary_ok) ==
    [st EXCEPT !.agent_results =
        Put(@, "neo4j_result",
            SearchClinicalTrials(mock_data, BrandQueried, List(PdfLinksOf(st.agent_results)),
                                 embed_ok, scores, fails, summary_ok))]

\* process_vector: the state it returns
ProcessVectorNode(st, mock_data, embed_ok, scores, fails, summary_ok) ==
    [st EXCEPT !.agent_results =
        Put(@, "vector_result",
            SearchClinicalTrials(mock_data, BrandQueried, List(PdfLinksOf(st.agent_results)),
                                 embed_ok, scores, fails, summary_ok))]

\* the lines of summary_parts; an f-string is the record of its text and its values
ErrorPart(label, result) ==
    [label |-> label, text |-> "Error - ", error |-> Get(result, "error", "Unknown error")]

CapaPart(capa_result) ==
    IF Get(capa_result, "success", FALSE)
    THEN [label |-> "**CAPA Analysis:**", text |-> "Found {count} open CAPAs in the last year.",
          count |-> Get(capa_result, "count", 0)]
    ELSE ErrorPart("**CAPA Analysis:**", capa_result)

Neo4jPart(neo4j_result) ==
    IF Get(neo4j_result, "success", FALSE)
    THEN [label |-> "**Investigations:**", text |-> "Found {inv_count} investigations for brand Avino.",
          count |-> Len(Get(neo4j_result, "investigations", <<>>))]
    ELSE ErrorPart("**Investigations:**", neo4j_result)

VectorPart(vector_result) ==
    IF Get(vector_result, "success", FALSE)
    THEN IF Get(vector_result, "summary", EmptySummary) # EmptySummary
         THEN [label |-> "**Clinical Trials:**", text |-> "{summary}", summary |-> vector_result.summary]
         ELSE [label |-> "**Clinical Trials:**", text |-> "No clinical trial data found for brand Avino."]
    ELSE ErrorPart("**Clinical Trials:**", vector_result)

\* the three lines with the graph lookup's line first
ConsolidatedDataNeo4jFirst(agent_results) ==
    << Neo4jPart(Get(agent_results, "neo4j_result", EmptyDict)),
       CapaPart(Get(agent_results, "capa_result", EmptyDict)),
       VectorPart(Get(agent_results, "vector_result", EmptyDict)) >>

\* "\n".join(summary_parts)
ConsolidatedData(agent_results) ==
    << CapaPart(Get(agent_results, "capa_result", EmptyDict)),
       Neo4jPart(Get(agent_results, "neo4j_result", EmptyDict)),
       VectorPart(Get(agent_results, "vector_result", EmptyDict)) >>

\* consolidate_results: the state it returns
ConsolidateNode(st, response) ==
    [st EXCEPT !.final_summary = GenerateFinalSummary(ConsolidatedData(st.agent_results), response)]

-----------------------------------------------------------------------------
(* Each specification below exercises one part of the program; the variables of the
   other parts keep these values in it *)

NeoUnused ==
    /\ neoStore = <<>>
    /\ neoCalls = 0
    /\ neoOut = [op |-> "none"]

\* the initial_state of run
InitialState(query) ==
    [query |-> query, breakdown |-> JDict(EmptyDict), agent_results |-> EmptyDict,
     final_summary |-> NoSummary, email_result |-> EmptyDict, error |-> ""]

RunUnused ==
    /\ vecOut = [op |-> "none"]
    /\ orchOut = [op |-> "none"]
    /\ sumOut = [op |-> "none"]
    /\ active = {}
    /\ executed = <<>>
    /\ state = InitialState("")
    /\ runPc = "idle"
    /\ runResult = EmptyDict

MailUnused ==
    /\ mailModule = [mock_mode |-> TRUE, use_tls |-> TRUE, credentials |-> FALSE]
    /\ mockLog = <<>>
    /\ smtpLog = <<>>
    /\ mailCalls = 0
    /\ mailOut = [op |-> "none"]

EmbUnused ==
    /\ embIn = [text |-> ""]
    /\ embOut = [op |-> "none"]

VecUnused ==
    /\ vecStore = <<>>
    /\ vecCalls = 0

AppUnused ==
    /\ session = EmptyDict
    /\ page = [user_query |-> "", buttons |-> {}, pending |-> FALSE]
    /\ emailLog = <<>>
    /\ clicks = <<>>
    /\ displayed = <<>>
    /\ workLog = <<>>

CapaUnused ==
    /\ now \in {[ord |-> ToOrdinal(2025, 6, 15), sec |-> 0]}
    /\ capaTable = <<>>
    /\ capaReadable = FALSE
    /\ capaQuery = ""
    /\ capaPc = "unused"
    /\ capaOut = EmptyDict

-----------------------------------------------------------------------------
(* The record filter agent on its own: CapaAgent.process_query over a table *)

\* the values datetime.now() takes: 2025-06-15 at 00:00:00 and at 12:00:00
NowSet == {[ord |-> ToOrdinal(2025, 6, 15), sec |-> s] : s \in {0, 43200}}

Capa(id, status, date) == [capa_id |-> id, status |-> status, date |-> date]

\* the records the tables are built from
CapaRecordPool ==
    { Capa("CAPA2024001", "OPEN", DateStr("dash", 2025, 6, 1, -1)),
      Capa("CAPA2024002", "open", DateStr("dash", 2024, 6, 15, -1)),
      Capa("CAPA2024003", "Open", DateStr("dash", 2024, 6, 14, -1)),
      Capa("CAPA2024004", "CLOSED", DateStr("dash", 2025, 6, 1, -1)),
      Capa("CAPA2024005", "OPEN", DateStr("slash", 14, 6, 2025, -1)),
      Capa("CAPA2024006", "OPEN", DateStr("slash", 7, 6, 2024, -1)),
      Capa("CAPA2024007", "OPEN", DateStr("dash", 2024, 6, 15, 43200)),
      Capa("", "OPEN", TextStr),
      Capa("CAPA2024009", "OPEN", BlankStr),
      Capa("CAPA2024010", "OPEN", EmptyStr),
      [capa_id |-> "CAPA2024011", status |-> "OPEN"],
      [capa_id |-> "CAPA2024012", date |-> DateStr("dash", 2025, 6, 1, -1)] }

\* long tables, of records that all or mostly match
LongRecordPool ==
    { Capa("CAPA2024001", "OPEN", DateStr("dash", 2025, 6, 1, -1)),
      Capa("CAPA2024004", "CLOSED", DateStr("dash", 2025, 6, 1, -1)) }

LongTables == UNION {[1..k -> LongRecordPool] : k \in (MaxCapaRecords + 1)..MaxLongTable}

CapaQueries == {"How many open CAPA are present in the last one year?", "Q1: open CAPA count"}

InitCapa ==
    /\ now \in NowSet
    /\ capaTable \in SeqsUpTo(CapaRecordPool, MaxCapaRecords) \cup LongTables
    /\ capaReadable \in BOOLEAN
    /\ capaQuery \in CapaQueries
    /\ capaPc = "idle"
    /\ capaOut = EmptyDict
    /\ NeoUnused
    /\ RunUnused
    /\ AppUnused
    /\ VecUnused
    /\ EmbUnused
    /\ MailUnused

\* one call of CapaAgent.process_query
CapaProcessQuery ==
    /\ capaPc = "idle"
    /\ capaOut' = ProcessQuery(capaQuery, capaReadable, capaTable, now)
    /\ capaPc' = "done"
    /\ UNCHANGED <<now, capaTable, capaReadable, capaQuery>>
    /\ UNCHANGED <<neoVars, runVars, appVars, vecVars, embVars, mailVars>>

NextCapa == CapaProcessQuery

SpecCapa == InitCapa /\ [][NextCapa]_vars

\* a date string parses when one of the accepted formats reads it
DateParses(s) == Truthy(s) /\ \E i \in DOMAIN DateFormats : Strptime(s, DateFormats[i]).ok

\* the datetime a parsing date string denotes: its reading under the first format that accepts it
DateOf(s) ==
    LET first == CHOOSE i \in DOMAIN DateFormats :
                    /\ Strptime(s, DateFormats[i]).ok
                    /\ \A j \in 1..(i - 1) : ~Strptime(s, DateFormats[j]).ok
    IN  Strptime(s, DateFormats[first])

\* a record that is OPEN in any letter case and dated within 365 days before now
OpenInLastYear(r) ==
    /\ "status" \in DOMAIN r
    /\ r.status \in {"OPEN", "Open", "open"}
    /\ "date" \in DOMAIN r
    /\ DateParses(r.date)
    /\ DateGE(DateOf(r.date), [ord |-> now.ord - 365, sec |-> now.sec])

\* C7: on a non-empty readable table process_query returns success=true, details equal
\* to exactly the records, in table order, that are OPEN (any letter case) and whose
\* date parses and is not earlier than 365 days before now, and count their number;
\* on an empty or unreadable table it returns success=false, count 0 and no details.
C7_ProcessQueryFilters ==
    capaPc = "done" =>
        IF capaReadable /\ capaTable # <<>>
        THEN /\ capaOut.success = TRUE
             /\ capaOut.details = SelectSeq(capaTable, OpenInLastYear)
             /\ capaOut.count = Len(SelectSeq(capaTable, OpenInLastYear))
        ELSE /\ capaOut.success = FALSE
             /\ capaOut.count = 0
             /\ capaOut.details = <<>>

\* a call that kept one record of a two-record table, the kept one written in lower case
\* and dated exactly 365 days before now
C7_Witness ==
    /\ capaPc = "done"
    /\ capaReadable
    /\ Len(capaTable) = 2
    /\ capaOut.success = TRUE
    /\ capaOut.count = 1
    /\ capaOut.details[1].status = "open"
    /\ now.sec = 0

\* C8 as stated: the details list never holds more than a fixed maximum of records
\* (the only cap the program has is the MaxDetailsShown records of the email body).
C8_DetailsCapped ==
    capaPc = "done" => Len(capaOut.details) <= MaxDetailsShown

\* C8 amended: details is not cut: its length equals count, never exceeds the number
\* of records in the table, and equals it when every record of the table matches.
C8_DetailsUncapped ==
    capaPc = "done" =>
        /\ Len(capaOut.details) = capaOut.count
        /\ Len(capaOut.details) <= Len(capaTable)
        /\ (capaReadable /\ \A i \in DOMAIN capaTable : OpenInLastYear(capaTable[i]))
              => Len(capaOut.details) = Len(capaTable)

\* a call that returned more records than the email body would list
C8_Witness ==
    /\ capaPc = "done"
    /\ capaOut.success = TRUE
    /\ Len(capaOut.details) > MaxDetailsShown

-----------------------------------------------------------------------------
(* The graph store on its own: calls of query_investigations and get_investigations *)

BrandNames == {"Avino", "avino", "AVINO", "Belmo"}

CapaIdPool == {"CAPA2024001", "CAPA2024002", "CAPA2024999"}

IdLists == {NoneList} \cup {List(l) : l \in SeqsUpTo(CapaIdPool, MaxIdList)}

InitNeo ==
    /\ neoStore \in {MockInvestigations, OtherInvestigations}
    /\ neoCalls = 0
    /\ neoOut = [op |-> "none"]
    /\ CapaUnused
    /\ RunUnused
    /\ AppUnused
    /\ VecUnused
    /\ EmbUnused
    /\ MailUnused

\* one call of MCPNeo4jModule.query_investigations
NeoQueryInvestigations ==
    /\ neoCalls < MaxNeoCalls
    /\ \E brand_name \in BrandNames, capa_ids \in IdLists, fails \in BOOLEAN :
          neoOut' = [op |-> "query_investigations", brand_name |-> brand_name,
                     capa_ids |-> capa_ids, fails |-> fails,
                     result |-> QueryInvestigations(neoStore, brand_name, capa_ids, fails)]
    /\ neoCalls' = neoCalls + 1
    /\ UNCHANGED neoStore
    /\ UNCHANGED <<capaVars, runVars, appVars, vecVars, embVars, mailVars>>

\* one call of Neo4jAgent.get_investigations
NeoGetInvestigations ==
    /\ neoCalls < MaxNeoCalls
    /\ \E brand_name \in BrandNames, capa_ids \in IdLists, fails \in BOOLEAN :
          /\ neoOut' = [op |-> "get_investigations", brand_name |-> brand_name,
                        capa_ids |-> capa_ids, fails |-> fails,
                        result |-> GetInvestigations(neoStore, brand_name, capa_ids, fails)]
          /\ neoStore' = StoreAfterGetInvestigations(neoStore, brand_name, capa_ids, fails)
    /\ neoCalls' = neoCalls + 1
    /\ UNCHANGED <<capaVars, runVars, appVars, vecVars, embVars, mailVars>>

NextNeo == NeoQueryInvestigations \/ NeoGetInvestigations

SpecNeo == InitNeo /\ [][NextNeo]_vars

\* the investigations a query for (brand_name, capa_ids) is to return
WantedInvestigation(inv, brand_name, capa_ids) ==
    /\ "brand" \in DOMAIN inv
    /\ \/ inv.brand = brand_name
       \/ {inv.brand, brand_name} \subseteq {"Avino", "avino", "AVINO"}
    /\ (~capa_ids.none /\ Len(capa_ids.list) > 0) =>
          ("capa_id" \in DOMAIN inv /\ \E k \in 1..Len(capa_ids.list) : capa_ids.list[k] = inv.capa_id)

\* C9: query_investigations returns exactly the store's investigations, in store order,
\* whose brand equals the given name ignoring case and, when a non-empty ID list is
\* given, whose capa_id is in that list; with None or [] there is no ID filter.
C9_QueryInvestigationsFilters ==
    (neoOut.op = "query_investigations" /\ ~neoOut.fails) =>
        LET Wanted(inv) == WantedInvestigation(inv, neoOut.brand_name, neoOut.capa_ids)
        IN  neoOut.result = SelectSeq(neoStore, Wanted)

\* a query in another letter case with an ID list that keeps some of the brand's
\* investigations and drops others
C9_Witness ==
    /\ neoOut.op = "query_investigations"
    /\ ~neoOut.fails
    /\ neoOut.brand_name = "avino"
    /\ ~neoOut.capa_ids.none
    /\ Len(neoOut.capa_ids.list) = 2
    /\ Len(neoOut.result) = 2
    /\ Len(neoStore) = 3

-----------------------------------------------------------------------------
(* A run of the workflow: MultiAgentWorkflow.run over the compiled graph *)

Queries == {"How many open CAPA are present in the last one year for Avino?", "Summarise Avino"}

\* the records the tables of a run are built from
RunRecordPool ==
    { Capa("CAPA2024001", "OPEN", DateStr("dash", 2025, 6, 1, -1)),
      Capa("", "open", DateStr("dash", 2025, 6, 1, -1)),
      Capa("CAPA2024002", "CLOSED", DateStr("dash", 2025, 6, 1, -1)) }

ApiQ1 == "Q1: Count the open CAPA records of the past year"
ApiQ2 == "Q2: List the investigations of brand Avino with their CAPA"
ApiQ3 == "Q3: Summarise the clinical trials of brand Avino"

\* what generate_content answers to the breakdown prompt
BreakdownResponses ==
    { ApiRaises, ApiEmptyText, ApiNotJson,
      ApiJson(JDict([reasoning |-> "steps", sub_questions |-> <<ApiQ1, ApiQ2, ApiQ3>>,
                     agent_mapping |-> [capa_agent |-> "a", neo4j_agent |-> "b", vector_agent |-> "c"]])),
      ApiJson(JDict([reasoning |-> "steps", sub_questions |-> <<ApiQ3, ApiQ2>>])),
      ApiJson(JDict([reasoning |-> "steps", sub_questions |-> <<>>])),
      ApiJson(JDict([reasoning |-> "steps"])),
      ApiJson(JList(<<ApiQ1, ApiQ2, ApiQ3>>)) }

\* what generate_content answers to the summary prompt
SummaryResponses == {ApiRaises, ApiEmptyText, ApiNotJson}

\* what _calculate_similarity returns for the four documents: random.uniform(0.6, 0.95)
ScoreAssignments == { <<60, 95, 72, 95>>, <<65, 62, 70, 61>> }

Init ==
    /\ now = [ord |-> ToOrdinal(2025, 6, 15), sec |-> 0]
    /\ capaReadable \in BOOLEAN
    /\ capaTable \in SeqsUpTo(RunRecordPool, MaxRunRecords)
    /\ ~capaReadable => capaTable = <<>>
    /\ capaQuery = ""
    /\ capaPc = "unused"
    /\ capaOut = EmptyDict
    /\ neoStore \in {MockInvestigations, OtherInvestigations}
    /\ neoCalls = 0
    /\ neoOut = [op |-> "none"]
    /\ RunUnused
    /\ AppUnused
    /\ VecUnused
    /\ EmbUnused
    /\ MailUnused

\* run up to the first step of ainvoke: the entry point is due
RunStart ==
    /\ runPc = "idle"
    /\ \E query \in Queries : state' = InitialState(query)
    /\ active' = {EntryPoint}
    /\ runPc' = "running"
    /\ UNCHANGED <<vecOut, orchOut, sumOut, executed, runResult>>
    /\ UNCHANGED <<capaVars, neoVars, appVars, vecVars, embVars, mailVars>>

\* what the graph does when node n has returned: n is recorded, its successors are due,
\* and the invocation is over when nothing but END is left
Schedule(n) ==
    /\ executed' = Append(executed, n)
    /\ active' = (active \ {n}) \cup (Successors(n) \ {END})
    /\ runPc' = IF (active \ {n}) \cup (Successors(n) \ {END}) = {} THEN "finished" ELSE "running"

Orchestrate ==
    /\ runPc = "running"
    /\ "orchestrator" \in active
    /\ \E response \in BreakdownResponses :
          LET out == BreakDownQuery(state.query, response)
          IN  /\ orchOut' = [op |-> "break_down_query", response |-> response, raised |-> out.raised,
                             api_calls |-> out.api_calls, value |-> out.value]
              /\ state' = OrchestrateNode(state, out)
    /\ Schedule("orchestrator")
    /\ UNCHANGED <<vecOut, sumOut, runResult>>
    /\ UNCHANGED <<capaVars, neoVars, appVars, vecVars, embVars, mailVars>>

ProcessCapa ==
    /\ runPc = "running"
    /\ "capa_agent" \in active
    /\ state' = ProcessCapaNode(state, capaReadable, capaTable, now)
    /\ Schedule("capa_agent")
    /\ UNCHANGED <<vecOut, orchOut, sumOut, runResult>>
    /\ UNCHANGED <<capaVars, neoVars, appVars, vecVars, embVars, mailVars>>

\* fails: query_investigations raises inside its try
ProcessNeo4j ==
    /\ runPc = "running"
    /\ "neo4j_agent" \in active
    /\ \E fails \in BOOLEAN :
          /\ state' = ProcessNeo4jNode(state, neoStore, fails)
          /\ neoOut' = [op |-> "get_investigations", brand_name |-> BrandQueried,
                        capa_ids |-> List(CapaIdsOf(state.agent_results)), fails |-> fails,
                        result |-> GetInvestigations(neoStore, BrandQueried,
                                                     List(CapaIdsOf(state.agent_results)), fails)]
          /\ neoStore' = StoreAfterGetInvestigations(neoStore, BrandQueried,
                                                     List(CapaIdsOf(state.agent_results)), fails)
    /\ neoCalls' = neoCalls + 1
    /\ Schedule("neo4j_agent")
    /\ UNCHANGED <<vecOut, orchOut, sumOut, runResult>>
    /\ UNCHANGED <<capaVars, appVars, vecVars, embVars, mailVars>>

\* fails: vector_search raises inside its try
ProcessVector ==
    /\ runPc = "running"
    /\ "vector_agent" \in active
    /\ \E embed_ok \in BOOLEAN, scores \in ScoreAssignments, fails \in BOOLEAN, summary_ok \in BOOLEAN :
          /\ state' = ProcessVectorNode(state, MockVectorData, embed_ok, scores, fails, summary_ok)
          /\ vecOut' = [op |-> "search_clinical_trials", brand_name |-> BrandQueried,
                        pdf_links |-> List(PdfLinksOf(state.agent_results)), fails |-> fails]
    /\ Schedule("vector_agent")
    /\ UNCHANGED <<orchOut, sumOut, runResult>>
    /\ UNCHANGED <<capaVars, neoVars, appVars, vecVars, embVars, mailVars>>

ConsolidateResults ==
    /\ runPc = "running"
    /\ "consolidate" \in active
    /\ \E response \in SummaryResponses :
          /\ state' = ConsolidateNode(state, response)
          /\ sumOut' = [op |-> "generate_final_summary", response |-> response,
                        consolidated_data |-> ConsolidatedData(state.agent_results)]
    /\ Schedule("consolidate")
    /\ UNCHANGED <<vecOut, orchOut, runResult>>
    /\ UNCHANGED <<capaVars, neoVars, appVars, vecVars, embVars, mailVars>>

\* ainvoke returns the final state and run returns it
RunReturn ==
    /\ runPc = "finished"
    /\ runResult' = state
    /\ runPc' = "returned"
    /\ UNCHANGED <<vecOut, orchOut, sumOut, active, executed, state>>
    /\ UNCHANGED <<capaVars, neoVars, appVars, vecVars, embVars, mailVars>>

Next ==
    \/ RunStart
    \/ Orchestrate
    \/ ProcessCapa
    \/ ProcessNeo4j
    \/ ProcessVector
    \/ ConsolidateResults
    \/ RunReturn

Spec == Init /\ [][Next]_vars

\* asyncio runs every coroutine that is due until it returns
FairSpec == Spec /\ WF_vars(Next)

NodeOrder == <<"orchestrator", "capa_agent", "neo4j_agent", "vector_agent", "consolidate">>

\* the nodes that have returned are the first ones of NodeOrder, in that order; exactly
\* the next one is due; the invocation is over exactly when all five have returned
Sequential ==
    runPc # "idle" =>
        /\ Len(executed) <= Len(NodeOrder)
        /\ executed = SubSeq(NodeOrder, 1, Len(executed))
        /\ active = IF Len(executed) < Len(NodeOrder) THEN {NodeOrder[Len(executed) + 1]} ELSE {}
        /\ (runPc \in {"finished", "returned"}) <=> (executed = NodeOrder)

\* C1: in every run the five nodes execute in the order orchestrator, capa_agent,
\* neo4j_agent, vector_agent, consolidate, each exactly once, one at a time, each due
\* only when the previous one has returned, and the run then reaches END and returns.
C1_LinearRun ==
    /\ []Sequential
    /\ (runPc = "running") ~> (runPc = "returned" /\ executed = NodeOrder)

\* a run that has returned after its five nodes
C1_Witness ==
    /\ runPc = "returned"
    /\ executed = NodeOrder
    /\ runResult = state
    /\ runResult.final_summary # NoSummary

\* C5: break_down_query calls the generative API at most once and never raises; when
\* the call fails, returns empty text or returns text that is not valid JSON, it returns
\* the static fallback: the three fixed sub-questions Q1 (CAPA), Q2 (investigations for
\* Avino), Q3 (clinical trial summary) and a mapping for the three agents.
C5_BreakDownFallback ==
    orchOut.op = "break_down_query" =>
        /\ orchOut.api_calls <= 1
        /\ ~orchOut.raised
        /\ (orchOut.response.kind = "raise" \/ orchOut.response.empty \/ ~orchOut.response.valid_json) =>
              /\ orchOut.value.type = "dict"
              /\ orchOut.value.d.sub_questions =
                    << "Q1: How many open CAPA are present in the last 1 year?",
                       "Q2: Fetch Investigation details for brand 'Avino' including CAPA ID, Investigation Name, Brand, Batch Number, PDF Link",
                       "Q3: Retrieve clinical trial summary for brand 'Avino' from vector database" >>
              /\ DOMAIN orchOut.value.d.agent_mapping = {"capa_agent", "neo4j_agent", "vector_agent"}

\* a call whose API answer was text that is not JSON, and which returned the fallback
C5_Witness ==
    /\ orchOut.op = "break_down_query"
    /\ orchOut.response = ApiNotJson
    /\ Len(orchOut.value.d.sub_questions) = 3
    /\ state.breakdown = orchOut.value
    /\ state.error = ""

\* C6 as stated: every breakdown break_down_query returns, from the API or from the
\* fallback, contains exactly three sub-questions.
C6_ThreeSubQuestions ==
    orchOut.op = "break_down_query" =>
        /\ orchOut.value.type = "dict"
        /\ "sub_questions" \in DOMAIN orchOut.value.d
        /\ Len(orchOut.value.d.sub_questions) = 3

\* the entry of an agent in agent_results says it failed and why
EntryRecordsError(key) ==
    /\ key \in DOMAIN state.agent_results
    /\ Get(state.agent_results[key], "success", TRUE) = FALSE
    /\ Get(state.agent_results[key], "error", "") # ""

Returned(n) == \E i \in DOMAIN executed : executed[i] = n

\* C3 as stated: a failure inside process_capa, process_neo4j or process_vector (the
\* table cannot be read, the node raises, the graph query or the vector search raises)
\* never stops, reroutes or repeats the pipeline, and the failing node's entry in
\* agent_results has success=false and the error string.
C3_FailureIsolated ==
    /\ Sequential
    /\ (Returned("capa_agent") /\ (~capaReadable \/ state.breakdown.type # "dict"))
          => EntryRecordsError("capa_result")
    /\ (Returned("neo4j_agent") /\ neoOut.fails) => EntryRecordsError("neo4j_result")
    /\ (Returned("vector_agent") /\ vecOut.fails) => EntryRecordsError("vector_result")

\* C4 as stated: when the table read, the graph query or the vector search of an agent
\* fails, the agent's result has success=false and an error field; a failed lookup is
\* never reported as a successful empty result.
C4_LookupFailureRecorded ==
    /\ (Returned("capa_agent") /\ ~capaReadable /\ state.breakdown.type = "dict") =>
          /\ state.agent_results.capa_result.success = FALSE
          /\ "error" \in DOMAIN state.agent_results.capa_result
    /\ (neoOut.op = "get_investigations" /\ neoOut.fails) =>
          /\ neoOut.result.success = FALSE
          /\ "error" \in DOMAIN neoOut.result
    /\ (vecOut.op = "search_clinical_trials" /\ vecOut.fails) =>
          /\ state.agent_results.vector_result.success = FALSE
          /\ "error" \in DOMAIN state.agent_results.vector_result

HasCapaId(capa) == "capa_id" \in DOMAIN capa /\ capa.capa_id # ""

HasPdfLink(inv) == "pdf_link" \in DOMAIN inv /\ inv.pdf_link # ""

\* the non-empty values of field key of the records of list, in order, when result is
\* successful; nothing otherwise
ForwardedValues(result, list, key, Has(_)) ==
    IF "success" \in DOMAIN result /\ result.success /\ list \in DOMAIN result
    THEN LET kept == SelectSeq(result[list], Has)
         IN  [i \in 1..Len(kept) |-> kept[i][key]]
    ELSE <<>>

\* C10: the ID list passed to the graph lookup is exactly the sequence of non-empty
\* capa_id values of capa_result.details when capa_result is successful, and empty
\* otherwise; the link list passed to the similarity search is exactly the sequence of
\* non-empty pdf_link values of neo4j_result.investigations when neo4j_result is
\* successful, and empty otherwise; the only other argument is the fixed brand Avino.
C10_ForwardedArguments ==
    /\ neoOut.op = "get_investigations" =>
          /\ neoOut.brand_name = "Avino"
          /\ ~neoOut.capa_ids.none
          /\ neoOut.capa_ids.list =
                ForwardedValues(state.agent_results.capa_result, "details", "capa_id", HasCapaId)
    /\ vecOut.op = "search_clinical_trials" =>
          /\ vecOut.brand_name = "Avino"
          /\ ~vecOut.pdf_links.none
          /\ vecOut.pdf_links.list =
                ForwardedValues(state.agent_results.neo4j_result, "investigations", "pdf_link", HasPdfLink)

\* a run in which one of two matching records had no capa_id and one of the
\* investigations found had no pdf_link
C10_Witness ==
    /\ vecOut.op = "search_clinical_trials"
    /\ state.agent_results.capa_result.success
    /\ state.agent_results.neo4j_result.success
    /\ Len(state.agent_results.capa_result.details) = 2
    /\ Len(neoOut.capa_ids.list) = 1
    /\ Len(vecOut.pdf_links.list) >= 1
    /\ Len(state.agent_results.neo4j_result.investigations) > Len(vecOut.pdf_links.list)

-----------------------------------------------------------------------------
(* streamlit_app.py: the script main, run once for every interaction with the page *)

\* st.session_state.workflow_results = None
NoResults == [kind |-> "None"]

\* the initialisation of st.session_state at the top of main
InitSessionState(session_state) ==
    LET a == IF "workflow_results" \in DOMAIN session_state THEN session_state
             ELSE Put(session_state, "workflow_results", NoResults)
        b == IF "email_approved" \in DOMAIN a THEN a ELSE Put(a, "email_approved", FALSE)
    IN  IF "processing" \in DOMAIN b THEN b ELSE Put(b, "processing", TRUE)

\* not user_query.strip(), on the texts in use
Blank(user_query) == user_query \in {"", "   "}

\* what a script run leaves behind: the session state, whether it ended in st.rerun(),
\* whether it ran the workflow, the results it called send_email with, and the buttons
\* it rendered enabled
Pass(session_state, rerun, ran_workflow, sent, buttons) ==
    [session |-> session_state, rerun |-> rerun, ran_workflow |-> ran_workflow,
     sent |-> sent, buttons |-> buttons]

\* the else branch of the email section with its last line left out: the approval stays
SendEmailKeepingApproval(session_state, ran_workflow, buttons) ==
    Pass(session_state, FALSE, ran_workflow,
         <<[results |-> session_state.workflow_results,
            email_approved |-> session_state.email_approved]>>, buttons)

\* the else branch of the email section: send_email is called with the results, whatever
\* it answers is shown, and the approval is withdrawn
SendEmail(session_state, ran_workflow, buttons) ==
    Pass([session_state EXCEPT !.email_approved = FALSE], FALSE, ran_workflow,
         <<[results |-> session_state.workflow_results,
            email_approved |-> session_state.email_approved]>>, buttons)

\* the section "Display results" of main, to the end of the script
DisplayResults(session_state, click, ran_workflow, buttons) ==
    IF session_state.workflow_results = NoResults
    THEN Pass(session_state, FALSE, ran_workflow, <<>>, buttons)
    ELSE IF ~session_state.email_approved
         THEN IF click = "yes"
              THEN Pass([session_state EXCEPT !.email_approved = TRUE], TRUE, ran_workflow, <<>>, {})
              ELSE Pass(session_state, FALSE, ran_workflow, <<>>, buttons \cup {"yes", "no"})
         ELSE SendEmail(session_state, ran_workflow, buttons)

\* the body of the Process Query button with the approval left as it is
ProcessClickKeepingApproval(session_state) ==
    [session_state EXCEPT !.processing = TRUE, !.workflow_results = NoResults]

\* the body of `if st.button("Process Query")`, up to st.rerun()
ProcessClick(session_state) ==
    [session_state EXCEPT !.processing = TRUE, !.workflow_results = NoResults,
                          !.email_approved = FALSE]

\* the body of `if st.button("Clear Results")`, up to st.rerun()
ClearClick(session_state) ==
    [session_state EXCEPT !.workflow_results = NoResults, !.email_approved = FALSE,
                          !.processing = FALSE]

\* the passes that run the workflow with every text, the blank ones too
ProcessingAnyQuery(session_state, user_query) == session_state.processing

\* st.session_state.processing and user_query.strip()
Processing(session_state, user_query) ==
    session_state.processing /\ ~Blank(user_query)

\* whether this run of main reaches MultiAgentWorkflow().run
RunsWorkflow(session_state, user_query, click) ==
    /\ click \notin {"process", "clear"}
    /\ Processing(InitSessionState(session_state), user_query)

\* one run of main. click: the button whose st.button call returns True in this run,
\* "none" when there is none; outcome: what MultiAgentWorkflow() and run do if called
ScriptRun(session_state, user_query, click, outcome) ==
    LET ss == InitSessionState(session_state)
        buttons == {"clear"} \cup
                   (IF ss.processing \/ Blank(user_query) THEN {} ELSE {"process"})
    IN  IF click = "process"
        THEN Pass(ProcessClick(ss), TRUE, FALSE, <<>>, {})
        ELSE IF click = "clear"
        THEN Pass(ClearClick(ss), TRUE, FALSE, <<>>, {})
        ELSE IF Processing(ss, user_query)
        THEN IF outcome.raised
             THEN DisplayResults([ss EXCEPT !.processing = FALSE], click, FALSE, buttons)
             ELSE Pass([ss EXCEPT !.workflow_results = outcome.value, !.processing = FALSE],
                       TRUE, TRUE, <<>>, {})
        ELSE DisplayResults([ss EXCEPT !.processing = FALSE], click, FALSE, buttons)

-----------------------------------------------------------------------------
(* A Streamlit session: the user on the page, the script run after every interaction *)

QueryTexts == {"", "   ", "How many open CAPA are present in the last one year?"}

\* what the workflow does when the script calls it: the constructor raises, or run
\* returns its final state, or run returns the state of its except branch
WorkflowOutcomes(query) ==
    { [raised |-> TRUE, value |-> NoResults],
      [raised |-> FALSE,
       value |-> [InitialState(query) EXCEPT !.final_summary = ApiSummary("final summary text")]],
      [raised |-> FALSE,
       value |-> [InitialState(query) EXCEPT !.final_summary = FailedSummary("Workflow error", <<>>),
                                             !.error = "Workflow error"]] }

InitApp ==
    /\ session = EmptyDict
    /\ page = [user_query |-> "", buttons |-> {}, pending |-> TRUE]
    /\ emailLog = <<>>
    /\ clicks = <<>>
    /\ displayed = <<>>
    /\ workLog = <<>>
    /\ CapaUnused
    /\ NeoUnused
    /\ RunUnused
    /\ VecUnused
    /\ EmbUnused
    /\ MailUnused

\* the effect of one script run on the session, the page and the log of emails
AfterScriptRun(pass, user_query, happened) ==
    /\ session' = pass.session
    /\ page' = [user_query |-> user_query, pending |-> pass.rerun,
                buttons |-> IF pass.rerun THEN {} ELSE pass.buttons]
    /\ emailLog' = emailLog \o
          [i \in 1..Len(pass.sent) |->
              [results |-> pass.sent[i].results, email_approved |-> pass.sent[i].email_approved,
               ran_workflow |-> pass.ran_workflow, after |-> happened]]

\* the log of workflow runs after a run of main on the given session state
WorkLogAfter(session_state, user_query, click, happened) ==
    IF RunsWorkflow(session_state, user_query, click)
    THEN Append(workLog, [processing |-> InitSessionState(session_state).processing,
                          user_query |-> user_query, after |-> happened])
    ELSE workLog

\* the first run of the script, and the run that st.rerun() starts: no button is clicked
ScriptRerun ==
    /\ page.pending
    /\ \E outcome \in WorkflowOutcomes(page.user_query) :
          AfterScriptRun(ScriptRun(session, page.user_query, "none", outcome),
                         page.user_query, clicks)
    /\ workLog' = WorkLogAfter(session, page.user_query, "none", clicks)
    /\ UNCHANGED <<clicks, displayed>>
    /\ UNCHANGED <<capaVars, neoVars, runVars, vecVars, embVars, mailVars>>

\* the user edits the query box: the script runs with the new text
UserEditsQuery ==
    /\ ~page.pending
    /\ Len(clicks) < MaxClicks
    /\ \E user_query \in QueryTexts \ {page.user_query} :
          /\ clicks' = Append(clicks, "edit")
          /\ displayed' = Append(displayed, session.workflow_results)
          /\ workLog' = WorkLogAfter(session, user_query, "none", Append(clicks, "edit"))
          /\ \E outcome \in WorkflowOutcomes(user_query) :
                AfterScriptRun(ScriptRun(session, user_query, "none", outcome),
                               user_query, Append(clicks, "edit"))
    /\ UNCHANGED <<capaVars, neoVars, runVars, vecVars, embVars, mailVars>>

\* the user clicks one of the buttons the page shows enabled: the script runs with it
UserClicks ==
    /\ ~page.pending
    /\ Len(clicks) < MaxClicks
    /\ \E click \in page.buttons :
          /\ clicks' = Append(clicks, click)
          /\ displayed' = Append(displayed, session.workflow_results)
          /\ workLog' = WorkLogAfter(session, page.user_query, click, Append(clicks, click))
          /\ \E outcome \in WorkflowOutcomes(page.user_query) :
                AfterScriptRun(ScriptRun(session, page.user_query, click, outcome),
                               page.user_query, Append(clicks, click))
    /\ UNCHANGED <<capaVars, neoVars, runVars, vecVars, embVars, mailVars>>

NextApp == ScriptRerun \/ UserEditsQuery \/ UserClicks

SpecApp == InitApp /\ [][NextApp]_vars

-----------------------------------------------------------------------------
(* The similarity search in a run *)

\* C11 as stated: the PDF links forwarded from the graph lookup filter the similarity
\* search: when the forwarded list is non-empty, every document in search_results has
\* a metadata source that is one of the forwarded links.
C11_LinksFilterSearch ==
    (vecOut.op = "search_clinical_trials" /\ vecOut.pdf_links.list # <<>>
        /\ "search_results" \in DOMAIN state.agent_results.vector_result) =>
        \A i \in DOMAIN state.agent_results.vector_result.search_results :
            InList(state.agent_results.vector_result.search_results[i].metadata.source,
                   vecOut.pdf_links.list)

-----------------------------------------------------------------------------
(* mcp_modules/mcp_vector.py: the documents of the store and the calls that change them *)

\* f"doc_{n:03d}"
DocIdOf(n) ==
    <<"doc_001", "doc_002", "doc_003", "doc_004", "doc_005", "doc_006", "doc_007", "doc_008",
      "doc_009">>[n]

\* the index of the first document of mock_data[i..] whose id is document_id, 0 if none
RECURSIVE FirstWithId(_, _, _)
FirstWithId(mock_data, document_id, i) ==
    IF i > Len(mock_data) THEN 0
    ELSE IF mock_data[i].id = document_id THEN i
    ELSE FirstWithId(mock_data, document_id, i + 1)

\* MCPVectorModule.add_document: the store after it and the id it returns
AddDocument(mock_data, content, metadata) ==
    LET doc_id == DocIdOf(Len(mock_data) + 1)
    IN  [store |-> Append(mock_data, [id |-> doc_id, content |-> content, metadata |-> metadata]),
         result |-> doc_id]

\* dict.update
Update(d, u) == [k \in DOMAIN d \cup DOMAIN u |-> IF k \in DOMAIN u THEN u[k] ELSE d[k]]

\* MCPVectorModule.update_document with new metadata
UpdateDocument(mock_data, document_id, metadata) ==
    LET i == FirstWithId(mock_data, document_id, 1)
    IN  IF i = 0 THEN [store |-> mock_data, result |-> FALSE]
        ELSE [store |-> [mock_data EXCEPT ![i] =
                            Put(Put(@, "metadata", Update(@.metadata, metadata)),
                                "updated_at", "timestamp")],
              result |-> TRUE]

\* MCPVectorModule.delete_document: del self.mock_data[i] for the first match
DeleteDocument(mock_data, document_id) ==
    LET i == FirstWithId(mock_data, document_id, 1)
    IN  IF i = 0 THEN [store |-> mock_data, result |-> FALSE]
        ELSE [store |-> SubSeq(mock_data, 1, i - 1) \o SubSeq(mock_data, i + 1, Len(mock_data)),
              result |-> TRUE]

-----------------------------------------------------------------------------
(* The vector store on its own: calls of add_document, update_document and
   delete_document one after another, and a call of vector_search *)

\* a store that earlier calls have changed: a document moved to another brand and a
\* fifth document whose metadata names no brand
OtherVectorData ==
    [MockVectorData EXCEPT ![2] = Put(Put(@, "metadata", Update(@.metadata, [brand |-> "Belmo"])),
                                      "updated_at", "timestamp")]
    \o << [id |-> "doc_005", content |-> "doc_005",
           metadata |-> [source |-> "https://documents.company.com/clinical/notes.pdf"]] >>

NewMetadata ==
    { [source |-> "https://documents.company.com/clinical/new.pdf", brand |-> "Avino"],
      [source |-> "https://documents.company.com/clinical/new.pdf", brand |-> "Belmo"],
      [source |-> "https://documents.company.com/clinical/new.pdf"] }

\* the ids the calls are made with: those of stored documents and one that none has
DocIdPool == {DocIdOf(n) : n \in 1..3} \cup {"doc_404"}

FilterPool ==
    { EmptyDict, [brand |-> "avino"],
      [brand |-> "Avino", source |-> "https://documents.company.com/investigations/INV001.pdf"] }

TopKPool == {2, 5}

\* what _calculate_similarity may return for a document, in hundredths
ScorePool == {50, 51, 95}

InitVec ==
    /\ vecStore \in {MockVectorData, OtherVectorData}
    /\ vecCalls = 0
    /\ CapaUnused
    /\ NeoUnused
    /\ RunUnused
    /\ AppUnused
    /\ EmbUnused
    /\ MailUnused

VecFrame ==
    /\ UNCHANGED <<orchOut, sumOut, active, executed, state, runPc, runResult>>
    /\ UNCHANGED <<capaVars, neoVars, appVars, embVars, mailVars>>

VecAddDocument ==
    /\ vecCalls < MaxVecCalls
    /\ Len(vecStore) < MaxDocs
    /\ \E metadata \in NewMetadata :
          LET out == AddDocument(vecStore, "new document", metadata)
          IN  /\ vecStore' = out.store
              /\ vecOut' = [op |-> "add_document", metadata |-> metadata, result |-> out.result]
    /\ vecCalls' = vecCalls + 1
    /\ VecFrame

VecUpdateDocument ==
    /\ vecCalls < MaxVecCalls
    /\ \E document_id \in DocIdPool, metadata \in {[brand |-> "Belmo"], [page |-> 2]} :
          LET out == UpdateDocument(vecStore, document_id, metadata)
          IN  /\ vecStore' = out.store
              /\ vecOut' = [op |-> "update_document", document_id |-> document_id,
                            metadata |-> metadata, result |-> out.result]
    /\ vecCalls' = vecCalls + 1
    /\ VecFrame

VecDeleteDocument ==
    /\ vecCalls < MaxVecCalls
    /\ \E document_id \in DocIdPool :
          LET out == DeleteDocument(vecStore, document_id)
          IN  /\ vecStore' = out.store
              /\ vecOut' = [op |-> "delete_document", document_id |-> document_id,
                            result |-> out.result]
    /\ vecCalls' = vecCalls + 1
    /\ VecFrame

\* a search on the store as it is, which runs to its end whatever the scores are
VecSearch ==
    /\ vecCalls = 0
    /\ \E filter_criteria \in FilterPool, top_k \in TopKPool,
          scores \in [1..Len(vecStore) -> ScorePool] :
          vecOut' = [op |-> "vector_search", filter_criteria |-> filter_criteria,
                     top_k |-> top_k, scores |-> scores, fails |-> FALSE,
                     result |-> VectorSearch(vecStore, filter_criteria, top_k, scores, FALSE)]
    /\ vecCalls' = vecCalls + 1
    /\ UNCHANGED vecStore
    /\ VecFrame

\* a search that raises inside its try
VecSearchFails ==
    /\ vecCalls = 0
    /\ \E filter_criteria \in FilterPool, top_k \in TopKPool :
          vecOut' = [op |-> "vector_search", filter_criteria |-> filter_criteria,
                     top_k |-> top_k, fails |-> TRUE,
                     result |-> VectorSearch(vecStore, filter_criteria, top_k, <<>>, TRUE)]
    /\ vecCalls' = vecCalls + 1
    /\ UNCHANGED vecStore
    /\ VecFrame

NextVec == VecAddDocument \/ VecUpdateDocument \/ VecDeleteDocument

SpecVec == InitVec /\ [][NextVec]_vars

NextVecSearch == VecSearch \/ VecSearchFails

SpecVecSearch == InitVec /\ [][NextVecSearch]_vars

\* C12: vector_search returns at most top_k documents, in order of non-increasing
\* score, each of which has every filtered key in its metadata with a matching value
\* and a score strictly greater than 0.5, whatever scores the documents are given.
C12_VectorSearchResult ==
    vecOut.op = "vector_search" =>
        /\ Len(vecOut.result) <= vecOut.top_k
        /\ \A i \in 1..(Len(vecOut.result) - 1) :
              vecOut.result[i].score >= vecOut.result[i + 1].score
        /\ \A i \in DOMAIN vecOut.result :
              /\ vecOut.result[i].score > 50
              /\ \A key \in DOMAIN vecOut.filter_criteria :
                    /\ key \in DOMAIN vecOut.result[i].metadata
                    /\ Lower(vecOut.result[i].metadata[key]) = Lower(vecOut.filter_criteria[key])

\* a search filtered by brand over a store that holds a document without brand, cut to
\* top_k, with a document left out for its score
C12_Witness ==
    /\ vecOut.op = "vector_search"
    /\ ~vecOut.fails
    /\ \E i \in DOMAIN vecStore : "brand" \notin DOMAIN vecStore[i].metadata
    /\ "brand" \in DOMAIN vecOut.filter_criteria
    /\ Len(vecOut.result) = vecOut.top_k
    /\ \E i \in DOMAIN vecStore :
          /\ "brand" \in DOMAIN vecStore[i].metadata
          /\ vecStore[i].metadata.brand = "Avino"
          /\ vecOut.scores[i] = 50

\* C18 as stated: after any sequence of add_document, update_document and
\* delete_document calls the document ids in the store are pairwise distinct.
C18_DistinctDocumentIds ==
    \A i, j \in DOMAIN vecStore : vecStore[i].id = vecStore[j].id => i = j

-----------------------------------------------------------------------------
(* The embeddings handler on its own: a call of generate_embedding, or a call of
   search_clinical_trials, under every behaviour of the embedding back ends *)

EmbTexts == {"", "   ", "clinical trial summary for brand Avino"}

ApiEmbedOutcomes ==
    {"raises", "response without embedding", "response with empty embedding",
     "response with embedding"}

InitEmb ==
    /\ embIn \in [text : EmbTexts, api : ApiEmbedOutcomes,
                  st : {"encodes", "ImportError", "raises"}, np : {"works", "raises"}]
    /\ embOut = [op |-> "none"]
    /\ CapaUnused
    /\ NeoUnused
    /\ RunUnused
    /\ AppUnused
    /\ VecUnused
    /\ MailUnused

EmbFrame ==
    /\ UNCHANGED embIn
    /\ UNCHANGED <<capaVars, neoVars, runVars, appVars, vecVars, mailVars>>

\* one call of EmbeddingsHandler.generate_embedding
EmbGenerateEmbedding ==
    /\ embOut.op = "none"
    /\ embOut' = [op |-> "generate_embedding",
                  result |-> EmbeddingVector(Blank(embIn.text), embIn.api, embIn.st, embIn.np,
                                             FallbackEnabled)]
    /\ EmbFrame

\* one call of VectorAgent.search_clinical_trials, which embeds its own query text
EmbSearchClinicalTrials ==
    /\ embOut.op = "none"
    /\ \E brand_name \in {"Avino", ""} :
          embOut' = [op |-> "search_clinical_trials", brand_name |-> brand_name,
                     result |-> SearchClinicalTrials(MockVectorData, brand_name, NoneList,
                                   EmbeddingTruthy(GeminiEmbedding(embIn.api)),
                                   <<60, 95, 72, 95>>, FALSE, TRUE)]
    /\ EmbFrame

NextEmb == EmbGenerateEmbedding \/ EmbSearchClinicalTrials

SpecEmb == InitEmb /\ [][NextEmb]_vars

\* C13: with fallback enabled generate_embedding returns no embedding exactly for
\* empty or blank text; for non-blank text it returns a non-empty vector even when the
\* embedding API raises or answers without a usable embedding; and
\* search_clinical_trials never fails with "Failed to generate query embedding".
C13_EmbeddingFallback ==
    /\ embOut.op = "generate_embedding" =>
          /\ (embOut.result = NoEmbedding) <=> (embIn.text \in {"", "   "})
          /\ embIn.text \notin {"", "   "} => embOut.result.dimension > 0
    /\ embOut.op = "search_clinical_trials" =>
          /\ embOut.result.success
          /\ "error" \notin DOMAIN embOut.result

\* a call on non-blank text whose API call raised, with sentence-transformers missing
C13_Witness ==
    /\ embOut.op = "generate_embedding"
    /\ embIn.text = "clinical trial summary for brand Avino"
    /\ embIn.api = "raises"
    /\ embIn.st = "ImportError"
    /\ embOut.result.kind = "mock"
    /\ embOut.result.dimension = 768

-----------------------------------------------------------------------------
(* consolidate_results on its own, called on states whose agent results are present,
   failed, or missing *)

Missing == [missing |-> TRUE]

CapaResultPool ==
    {Missing, [success |-> TRUE, count |-> 2], [success |-> TRUE],
     [success |-> FALSE, error |-> "CAPA data file not found"], [success |-> FALSE]}

Neo4jResultPool ==
    {Missing, [success |-> TRUE, investigations |-> MockInvestigations], [success |-> TRUE],
     [success |-> FALSE, error |-> "Neo4j query failed", investigations |-> <<>>],
     [success |-> FALSE]}

VectorResultPool ==
    {Missing, [success |-> TRUE, summary |-> NoHighConfidenceSummary],
     [success |-> TRUE, summary |-> EmptySummary], [success |-> TRUE],
     [success |-> FALSE, error |-> "Failed to generate query embedding"], [success |-> FALSE]}

\* the agent_results dict that holds the given results and lacks the missing ones
AgentResultsOf(capa_result, neo4j_result, vector_result) ==
    LET with1 == IF capa_result = Missing THEN EmptyDict
                 ELSE Put(EmptyDict, "capa_result", capa_result)
        with2 == IF neo4j_result = Missing THEN with1
                 ELSE Put(with1, "neo4j_result", neo4j_result)
    IN  IF vector_result = Missing THEN with2 ELSE Put(with2, "vector_result", vector_result)

InitCons ==
    /\ \E capa_result \in CapaResultPool, neo4j_result \in Neo4jResultPool,
          vector_result \in VectorResultPool :
          state = [InitialState("open CAPAs for Avino") EXCEPT
                      !.agent_results = AgentResultsOf(capa_result, neo4j_result, vector_result)]
    /\ vecOut = [op |-> "none"]
    /\ orchOut = [op |-> "none"]
    /\ sumOut = [op |-> "none"]
    /\ active = {}
    /\ executed = <<>>
    /\ runPc = "idle"
    /\ runResult = EmptyDict
    /\ CapaUnused
    /\ NeoUnused
    /\ AppUnused
    /\ VecUnused
    /\ EmbUnused
    /\ MailUnused

\* one call of MultiAgentWorkflow.consolidate_results
ConsConsolidateResults ==
    /\ sumOut.op = "none"
    /\ \E response \in SummaryResponses :
          /\ state' = ConsolidateNode(state, response)
          /\ sumOut' = [op |-> "generate_final_summary", response |-> response,
                        consolidated_data |-> ConsolidatedData(state.agent_results)]
    /\ UNCHANGED <<vecOut, orchOut, active, executed, runPc, runResult>>
    /\ UNCHANGED <<capaVars, neoVars, appVars, vecVars, embVars, mailVars>>

NextCons == ConsConsolidateResults

SpecCons == InitCons /\ [][NextCons]_vars

PartLabels == <<"**CAPA Analysis:**", "**Investigations:**", "**Clinical Trials:**">>

ResultKeys == <<"capa_result", "neo4j_result", "vector_result">>

\* the part is the agent's success line
IsSuccessLine(part, key, result) ==
    /\ part.text # "Error - "
    /\ key = "capa_result" =>
          part.count = (IF "count" \in DOMAIN result THEN result.count ELSE 0)
    /\ key = "neo4j_result" =>
          part.count = (IF "investigations" \in DOMAIN result THEN Len(result.investigations)
                        ELSE 0)
    /\ key = "vector_result" =>
          IF "summary" \in DOMAIN result /\ result.summary # EmptySummary
          THEN part.summary = result.summary
          ELSE part.text = "No clinical trial data found for brand Avino."

\* C14: the consolidated text handed to the final-summary call has exactly three parts
\* in the order CAPA Analysis, Investigations, Clinical Trials; the part of an agent is
\* its success line when its result has success = true, and otherwise the line
\* "Error - <error>", with "Unknown error" when the result (or its error) is missing.
C14_ConsolidatedParts ==
    sumOut.op = "generate_final_summary" =>
        /\ Len(sumOut.consolidated_data) = 3
        /\ \A i \in 1..3 :
              LET part == sumOut.consolidated_data[i]
                  key == ResultKeys[i]
                  results == state.agent_results
              IN  /\ part.label = PartLabels[i]
                  /\ IF key \in DOMAIN results /\ "success" \in DOMAIN results[key]
                        /\ results[key].success
                     THEN IsSuccessLine(part, key, results[key])
                     ELSE /\ part.text = "Error - "
                          /\ part.error =
                                (IF key \in DOMAIN results /\ "error" \in DOMAIN results[key]
                                 THEN results[key].error ELSE "Unknown error")

\* a call with a successful record filter, a failed graph lookup and no similarity
\* search result at all
C14_Witness ==
    /\ sumOut.op = "generate_final_summary"
    /\ DOMAIN state.agent_results = {"capa_result", "neo4j_result"}
    /\ state.agent_results.capa_result = [success |-> TRUE, count |-> 2]
    /\ state.agent_results.neo4j_result.success = FALSE
    /\ sumOut.consolidated_data[1].count = 2
    /\ sumOut.consolidated_data[2].error = "Neo4j query failed"
    /\ sumOut.consolidated_data[3].error = "Unknown error"

-----------------------------------------------------------------------------
(* mcp_email.py: MCPEmailModule.send_email, its mock channel and its SMTP channel.
   An operator that models a method which can raise returns raised = TRUE for it. *)

\* a body of None
NoneBody == "None"

\* _save_mock_email_log: the log file afterwards; log_ok = FALSE is makedirs, open or
\* write raising, which the method swallows
SaveMockEmailLog(log, email_data, log_ok) ==
    IF log_ok
    THEN Append(log, [to |-> email_data.to, subject |-> email_data.subject,
                      body_preview |-> email_data.body,
                      html_body_present |-> email_data.html_body # ""])
    ELSE log

\* _send_mock_email: what it returns and the log file afterwards
SendMockEmail(log, email_data, log_ok) ==
    IF email_data.body = NoneBody
    THEN [raised |-> FALSE, log |-> log, sessions |-> <<>>,
          value |-> [success |-> FALSE, error |-> "object of type 'NoneType' has no len()",
                     method |-> "mock"]]
    ELSE [raised |-> FALSE, log |-> SaveMockEmailLog(log, email_data, log_ok), sessions |-> <<>>,
          value |-> [success |-> TRUE, recipient |-> email_data.to,
                     subject |-> email_data.subject, method |-> "mock"]]

\* what the SMTP server does to a session: every call works, or the named call raises
SmtpOutcomes ==
    {"sends", "SMTP raises", "starttls raises", "login raises", "send_message raises",
     "quit raises"}

\* the calls of _send_smtp_message up to send_message, in order
SmtpSteps(module) ==
    <<"SMTP">> \o (IF module.use_tls THEN <<"starttls">> ELSE <<>>)
               \o (IF module.credentials THEN <<"login">> ELSE <<>>)
               \o <<"send_message">>

\* the index of the call that raises, 0 when none of the calls made does
RaisingStep(steps, smtp) ==
    IF \E i \in DOMAIN steps : steps[i] \o " raises" = smtp
    THEN CHOOSE i \in DOMAIN steps : steps[i] \o " raises" = smtp
    ELSE 0

\* _send_smtp_message: the calls made on the server, and whether it raises; the
\* finally clause quits the server unless the connection itself failed
SendSmtpMessage(module, smtp) ==
    LET steps == SmtpSteps(module)
        failed == RaisingStep(steps, smtp)
    IN  IF failed = 1
        THEN [raised |-> TRUE, calls |-> <<"SMTP">>]
        ELSE IF failed > 1
        THEN [raised |-> TRUE, calls |-> SubSeq(steps, 1, failed) \o <<"quit">>]
        ELSE [raised |-> smtp = "quit raises", calls |-> steps \o <<"quit">>]

\* _send_smtp_email: what it returns and the SMTP session it opened
SendSmtpEmail(module, log, email_data, smtp) ==
    LET sent == SendSmtpMessage(module, smtp)
    IN  [raised |-> FALSE, log |-> log, sessions |-> <<sent.calls>>,
         value |-> IF sent.raised
                   THEN [success |-> FALSE, error |-> smtp, method |-> "smtp"]
                   ELSE [success |-> TRUE, recipient |-> email_data.to,
                         subject |-> email_data.subject, method |-> "smtp"]]

\* a send_email that also keeps the mock log when it sends through SMTP
McpSendEmailLoggingAll(module, log, email_data, log_ok, smtp) ==
    IF module.mock_mode
    THEN SendMockEmail(log, email_data, log_ok)
    ELSE SendSmtpEmail(module, SaveMockEmailLog(log, email_data, log_ok), email_data, smtp)

\* MCPEmailModule.send_email: whether it raises, what it returns, the mock log
\* afterwards and the SMTP sessions it opened
McpSendEmail(module, log, email_data, log_ok, smtp) ==
    LET sent == IF module.mock_mode
                THEN SendMockEmail(log, email_data, log_ok)
                ELSE SendSmtpEmail(module, log, email_data, smtp)
    IN  IF sent.raised
        THEN [raised |-> FALSE, log |-> sent.log, sessions |-> sent.sessions,
              value |-> [success |-> FALSE, error |-> "error"]]
        ELSE sent

EmailDataPool ==
    [to : {"qa-team@company.com"}, subject : {"CAPA Analysis Summary"},
     body : {"Open CAPAs: 2", "", NoneBody}, html_body : {"", "<p>Open CAPAs: 2</p>"}]

InitMail ==
    /\ mailModule \in [mock_mode : BOOLEAN, use_tls : BOOLEAN, credentials : BOOLEAN]
    /\ mockLog = <<>>
    /\ smtpLog = <<>>
    /\ mailCalls = 0
    /\ mailOut = [op |-> "none"]
    /\ CapaUnused
    /\ NeoUnused
    /\ RunUnused
    /\ AppUnused
    /\ VecUnused
    /\ EmbUnused

\* one call of send_email on the module
MailSendEmail ==
    /\ mailCalls < MaxMailCalls
    /\ \E email_data \in EmailDataPool, log_ok \in BOOLEAN, smtp \in SmtpOutcomes :
          LET sent == McpSendEmail(mailModule, mockLog, email_data, log_ok, smtp)
          IN  /\ mockLog' = sent.log
              /\ smtpLog' = smtpLog \o sent.sessions
              /\ mailOut' = [op |-> "send_email", email_data |-> email_data,
                             log_ok |-> log_ok, smtp |-> smtp,
                             raised |-> sent.raised, value |-> sent.value,
                             logged |-> Len(sent.log) - Len(mockLog),
                             sessions |-> sent.sessions]
    /\ mailCalls' = mailCalls + 1
    /\ UNCHANGED mailModule
    /\ UNCHANGED <<capaVars, neoVars, runVars, appVars, vecVars, embVars>>

NextMail == MailSendEmail

SpecMail == InitMail /\ [][NextMail]_vars

\* C15: send_email uses exactly the channel chosen by mock_mode: in mock mode it
\* writes nothing but the mock log and opens no SMTP connection, otherwise it opens
\* one SMTP session and never writes the mock log; it never raises and what it returns
\* has a success flag.
C15_OneChannel ==
    /\ mailModule.mock_mode => smtpLog = <<>>
    /\ ~mailModule.mock_mode => mockLog = <<>>
    /\ mailOut.op = "send_email" =>
          /\ ~mailOut.raised
          /\ "success" \in DOMAIN mailOut.value
          /\ mailOut.value.success \in BOOLEAN
          /\ mailOut.value.method = (IF mailModule.mock_mode THEN "mock" ELSE "smtp")
          /\ mailModule.mock_mode => mailOut.sessions = <<>> /\ mailOut.logged \in {0, 1}
          /\ ~mailModule.mock_mode =>
                /\ mailOut.logged = 0
                /\ Len(mailOut.sessions) = 1
                /\ mailOut.sessions[1][1] = "SMTP"

\* two calls on a module in SMTP mode, the second failing at login, and nothing logged
C15_Witness ==
    /\ ~mailModule.mock_mode
    /\ mailCalls = 2
    /\ Len(smtpLog) = 2
    /\ smtpLog[1] = <<"SMTP", "starttls", "login", "send_message", "quit">>
    /\ smtpLog[2] = <<"SMTP", "starttls", "login", "quit">>
    /\ mailOut.value.success = FALSE
    /\ mockLog = <<>>

\* a call on a module in mock mode that wrote the message to the mock log
C15_WitnessMock ==
    /\ mailModule.mock_mode
    /\ mailOut.op = "send_email"
    /\ mailOut.value.success
    /\ mailOut.logged = 1
    /\ smtpLog = <<>>

-----------------------------------------------------------------------------
(* A run in which ainvoke itself can raise: the except branch of run *)

\* str(e) of what ainvoke raises: the message of the exception, which is empty for an
\* exception raised without arguments (asyncio.TimeoutError() for one)
ExceptionMessages == {"Recursion limit of 25 reached without hitting a stop condition", ""}

\* f"Workflow error: {str(e)}"
WorkflowErrorSummary(message) == [kind |-> "Workflow error: ", error |-> message]

\* the dict the except branch of run returns
WorkflowErrorState(query, message) ==
    [query |-> query, breakdown |-> JDict(EmptyDict), agent_results |-> EmptyDict,
     final_summary |-> WorkflowErrorSummary(message), email_result |-> EmptyDict,
     error |-> message]

\* ainvoke raises between two nodes and run returns through its except branch
RunRaises ==
    /\ runPc = "running"
    /\ \E message \in ExceptionMessages :
          runResult' = WorkflowErrorState(state.query, message)
    /\ runPc' = "raised"
    /\ active' = {}
    /\ UNCHANGED <<vecOut, orchOut, sumOut, executed, state>>
    /\ UNCHANGED <<capaVars, neoVars, appVars, vecVars, embVars, mailVars>>

NextRaise == Next \/ RunRaises

SpecRaise == Init /\ [][NextRaise]_vars

StateFields == {"query", "breakdown", "agent_results", "final_summary", "email_result", "error"}

\* C16: run returns a state with all six fields; when ainvoke raised, the returned
\* state has an empty breakdown, empty agent_results, a non-empty error, and a
\* final_summary that begins with "Workflow error:".
C16_RunAlwaysReturnsState ==
    /\ runPc \in {"returned", "raised"} => DOMAIN runResult = StateFields
    /\ runPc = "raised" =>
          /\ runResult.breakdown = JDict(EmptyDict)
          /\ runResult.agent_results = EmptyDict
          /\ runResult.error # ""
          /\ runResult.final_summary.kind = "Workflow error: "

-----------------------------------------------------------------------------
(* Whether the query reaches the agents' arguments. The record filter's answer for the
   fixed default question is a function of the table and the time alone, and a run whose
   decomposition fell back obtains it: two runs over the same stores agree on a value
   exactly when each agrees with this one. *)

QueryFreeCapaResult == ProcessQuery(DefaultCapaQuery, capaReadable, capaTable, now)

\* C17: the record filter's count and details, the brand and ID list given to the graph
\* lookup and the brand given to the similarity search are the same for every query
\* text and every answer of the decomposer, over the same stores at the same time.
C17_QueryIndependence ==
    /\ "capa_result" \in DOMAIN state.agent_results =>
          /\ Get(state.agent_results.capa_result, "count", 0) = QueryFreeCapaResult.count
          /\ Get(state.agent_results.capa_result, "details", <<>>) = QueryFreeCapaResult.details
    /\ neoOut.op = "get_investigations" =>
          /\ neoOut.brand_name = "Avino"
          /\ neoOut.capa_ids = List(CollectCapaIds(QueryFreeCapaResult.details, 1, <<>>))
    /\ vecOut.op = "search_clinical_trials" => vecOut.brand_name = "Avino"

-----------------------------------------------------------------------------
(* The graph store across the calls of SpecNeo *)

\* C19: get_investigations is read-only on the graph store: after the call, enrichment
\* included, every investigation record of the store's mock data has the fields and
\* values it had before the call.
C19_StoreReadOnly == [][neoStore' = neoStore]_vars

-----------------------------------------------------------------------------
(* A Streamlit session in which the user may act while a script run is under way.
   Streamlit stops the running script at its next st.* call once the user has touched a
   widget, by raising a control exception that derives from BaseException, and starts
   the script again; session state written before that point is kept. *)

\* the script run that sends the email, stopped at the st.success / st.error call that
\* follows send_email: the last line of the email section is never reached
InterruptedSend(session_state, user_query, outcome) ==
    LET pass == ScriptRun(session_state, user_query, "none", outcome)
    IN  Pass(InitSessionState(session_state), TRUE, pass.ran_workflow, pass.sent, {})

\* the user edits the query box while the pending script run is in send_email
UserEditsDuringSend ==
    /\ page.pending
    /\ Len(clicks) < MaxClicks
    /\ \E outcome \in WorkflowOutcomes(page.user_query),
          user_query \in QueryTexts \ {page.user_query} :
          /\ ScriptRun(session, page.user_query, "none", outcome).sent # <<>>
          /\ clicks' = Append(clicks, "edit")
          /\ displayed' = Append(displayed, session.workflow_results)
          /\ AfterScriptRun(InterruptedSend(session, page.user_query, outcome),
                            user_query, clicks)
    /\ UNCHANGED workLog
    /\ UNCHANGED <<capaVars, neoVars, runVars, vecVars, embVars, mailVars>>

\* the user clicks Process Query or Clear Results while the pending script run is in
\* send_email: that run is stopped after the send, and the script runs with the click
UserClicksDuringSend ==
    /\ page.pending
    /\ Len(clicks) < MaxClicks
    /\ \E outcome \in WorkflowOutcomes(page.user_query) :
          LET sending == ScriptRun(session, page.user_query, "none", outcome)
              stopped == InterruptedSend(session, page.user_query, outcome)
          IN  /\ sending.sent # <<>>
              /\ \E click \in sending.buttons :
                    LET pass == ScriptRun(stopped.session, page.user_query, click, outcome)
                    IN  /\ clicks' = Append(clicks, click)
                        /\ displayed' = Append(displayed, session.workflow_results)
                        /\ AfterScriptRun(Pass(pass.session, pass.rerun, pass.ran_workflow,
                                               stopped.sent, pass.buttons),
                                          page.user_query, clicks)
    /\ UNCHANGED workLog
    /\ UNCHANGED <<capaVars, neoVars, runVars, vecVars, embVars, mailVars>>

NextAppInterrupt == NextApp \/ UserEditsDuringSend \/ UserClicksDuringSend

SpecAppInterrupt == InitApp /\ [][NextAppInterrupt]_vars

\* the number of clicks on "Yes, Send Email" so far
Approvals == Len(SelectSeq(clicks, LAMBDA c : c = "yes"))

\* C20: each approval leads to at most one send attempt: there are never more send
\* attempts than clicks on the approve button, and once the script has come to rest
\* after a send attempt email_approved is false again.
C20_OneSendPerApproval ==
    /\ Len(emailLog) <= Approvals
    /\ (emailLog # <<>> /\ ~page.pending) => ~session.email_approved

-----------------------------------------------------------------------------
(* What an approval is given for, and what is sent *)

\* the position of the last click on "Yes, Send Email" among the given actions, 0 if none
LastApproval(happened) ==
    IF \E k \in DOMAIN happened : happened[k] = "yes"
    THEN CHOOSE k \in DOMAIN happened :
            /\ happened[k] = "yes"
            /\ \A j \in DOMAIN happened : happened[j] = "yes" => j <= k
    ELSE 0

\* every email carries the results the page displayed when the approval was given
SentWhatWasApproved ==
    \A i \in DOMAIN emailLog :
        /\ LastApproval(emailLog[i].after) > 0
        /\ emailLog[i].results = displayed[LastApproval(emailLog[i].after)]

\* a click on Process Query or Clear Results leaves no results and no approval
ClickResets ==
    (clicks' # clicks /\ clicks'[Len(clicks')] \in {"process", "clear"}) =>
        (session'.workflow_results = NoResults /\ ~session'.email_approved)

\* C21: an approval never carries over to different results: a click on Process Query
\* or Clear Results resets workflow_results to empty and email_approved to false before
\* anything else runs, and an email that is sent carries the results that were displayed
\* when the approval was given.
C21_ApprovalBoundToResults == []SentWhatWasApproved /\ [][ClickResets]_vars

\* an email was sent for the results of a second query, approved after an email for
\* the results of a first query had been sent
C21_Witness ==
    /\ Len(emailLog) = 2
    /\ emailLog[1].results # emailLog[2].results
    /\ Len(SelectSeq(clicks, LAMBDA c : c = "process")) = 2

-----------------------------------------------------------------------------
(* When the script runs the workflow *)

ProcessClicks == Len(SelectSeq(clicks, LAMBDA c : c = "process"))

\* C22: the workflow is run only in a script pass in which the processing flag is true
\* and the query is not blank, and only as the consequence of a click on Process Query;
\* when a script pass has ended without a rerun the processing flag is false, after
\* the first pass of a session and after a pass in which the workflow raised too.
C22_ProcessingFlag ==
    /\ \A i \in DOMAIN workLog :
          /\ workLog[i].processing
          /\ ~Blank(workLog[i].user_query)
          /\ workLog[i].after # <<>>
          /\ workLog[i].after[Len(workLog[i].after)] = "process"
    /\ Len(workLog) <= ProcessClicks
    /\ ~page.pending => session.processing = FALSE

\* the script has come to rest after a pass in which the workflow raised
C22_Witness ==
    /\ workLog # <<>>
    /\ ~page.pending
    /\ clicks[Len(clicks)] = "process"
    /\ session.workflow_results = NoResults
    /\ session.processing = FALSE

-----------------------------------------------------------------------------
(* The shape of agent_results through a run *)

\* the key of agent_results each agent node writes
ResultKeyOf(n) ==
    CASE n = "capa_agent" -> {"capa_result"}
      [] n = "neo4j_agent" -> {"neo4j_result"}
      [] n = "vector_agent" -> {"vector_result"}
      [] OTHER -> {}

\* the state a completed run returns
CompleteResults ==
    runPc = "returned" =>
        /\ DOMAIN runResult.agent_results = {"capa_result", "neo4j_result", "vector_result"}
        /\ \A key \in DOMAIN runResult.agent_results :
              /\ "success" \in DOMAIN runResult.agent_results[key]
              /\ runResult.agent_results[key].success \in BOOLEAN
        /\ runResult.final_summary # NoSummary

\* a node that has just returned added at most its own key and changed no other entry
OwnKeyOnly ==
    (runPc = "running" /\ executed' # executed) =>
        /\ DOMAIN state.agent_results \subseteq DOMAIN state'.agent_results
        /\ DOMAIN state'.agent_results \ DOMAIN state.agent_results
              \subseteq ResultKeyOf(executed'[Len(executed')])
        /\ \A key \in DOMAIN state.agent_results \ ResultKeyOf(executed'[Len(executed')]) :
              state'.agent_results[key] = state.agent_results[key]

\* C23: after every run the workflow completes, agent_results has exactly the keys
\* capa_result, neo4j_result and vector_result, each a result with a boolean success
\* field, and final_summary is not empty; each agent node writes only its own key and
\* leaves the entries of the earlier agents unchanged.
C23_AgentResultsShape == []CompleteResults /\ [][OwnKeyOnly]_vars

\* a completed run whose record filter failed while the two later agents succeeded
C23_Witness ==
    /\ runPc = "returned"
    /\ DOMAIN runResult.agent_results = {"capa_result", "neo4j_result", "vector_result"}
    /\ ~runResult.agent_results.capa_result.success
    /\ runResult.agent_results.neo4j_result.success
    /\ runResult.agent_results.vector_result.success
    /\ runResult.final_summary.kind = "api"

-----------------------------------------------------------------------------
(* Consolidation when the summary call fails *)

\* the summary call raised or answered with empty text
SummaryCallFailed ==
    /\ sumOut.op = "generate_final_summary"
    /\ (sumOut.response.kind = "raise" \/ sumOut.response.empty)

\* the failure text quotes the three lines of the consolidated data
FailureTextKeepsData ==
    SummaryCallFailed =>
        /\ state.final_summary.kind = "Summary generation failed: "
        /\ state.final_summary.error =
              (IF sumOut.response.kind = "raise" THEN "API error"
               ELSE "Empty response from Gemini")
        /\ state.final_summary.raw_data = sumOut.consolidated_data
        /\ Len(state.final_summary.raw_data) = 3
        /\ \A i \in 1..3 : state.final_summary.raw_data[i].label = PartLabels[i]

\* C24: when the final-summary API call fails or returns empty text, consolidation
\* still completes and final_summary is "Summary generation failed: <error>" followed
\* by the full consolidated data of the three agents; no agent result is lost.
C24_SummaryFailureKeepsData ==
    []FailureTextKeepsData /\ [][state'.agent_results = state.agent_results]_vars

\* a consolidation whose summary call raised, over a failed graph lookup
C24_Witness ==
    /\ sumOut.op = "generate_final_summary"
    /\ sumOut.response.kind = "raise"
    /\ state.final_summary.kind = "Summary generation failed: "
    /\ state.final_summary.raw_data[1].text # "Error - "
    /\ state.final_summary.raw_data[1].count = 2
    /\ state.final_summary.raw_data[2].text = "Error - "
    /\ state.final_summary.raw_data[2].error = "Neo4j query failed"
    /\ "vector_result" \in DOMAIN state.agent_results

-----------------------------------------------------------------------------
(* mcp_capa_mock.py: the cleaning of the records read from the table, before the agent
   filters them. mcp_capa_New.py cleans a missing status in the same way. *)

ValidStatuses == {"OPEN", "CLOSED", "IN_PROGRESS", "PENDING", "CANCELLED"}

\* 'PROGRESS' in status or 'WORKING' in status, on the status texts in use
MentionsProgress(status) == status \in {"WORK IN PROGRESS"}

\* 'COMPLETE' in status or 'DONE' in status, on the status texts in use
MentionsDone(status) == status \in {"DONE"}

\* the loop over required_fields, for the field status
RequiredStatus(record) ==
    IF "status" \notin DOMAIN record \/ record.status = "" THEN "UNKNOWN" ELSE record.status

\* the block "Standardize status", on the status the loop has left
StandardStatus(status) ==
    IF Upper(status) \notin ValidStatuses
    THEN IF MentionsProgress(Upper(status)) THEN "IN_PROGRESS"
         ELSE IF MentionsDone(Upper(status)) THEN "CLOSED"
         ELSE "OPEN"
    ELSE Upper(status)

\* datetime.now().strftime('%Y-%m-%d')
TodayStr(t) ==
    CHOOSE s \in {DateStr("dash", 2025, m, d, -1) : m \in 1..12, d \in 1..31} :
        ValidDate(s.a, s.b, s.c) /\ ToOrdinal(s.a, s.b, s.c) = t.ord

\* _normalize_date, on the shapes of date in use: a date that one of its formats reads
\* is written back as YYYY-MM-DD, any other text is returned as it is
NormalizeDate(date_str) ==
    IF Strptime(date_str, "%Y-%m-%d").ok THEN date_str
    ELSE IF Strptime(date_str, "%m/%d/%Y").ok
    THEN DateStr("dash", date_str.c, date_str.a, date_str.b, -1)
    ELSE IF Strptime(date_str, "%d/%m/%Y").ok
    THEN DateStr("dash", date_str.c, date_str.b, date_str.a, -1)
    ELSE date_str

\* the loop over required_fields, for the field date
RequiredDate(record, t) ==
    IF "date" \notin DOMAIN record \/ ~Truthy(record.date) THEN TodayStr(t) ELSE record.date

\* _validate_capa_record: the record it returns
ValidateCapaRecord(record, t) ==
    [capa_id |-> record.capa_id,
     status |-> StandardStatus(RequiredStatus(record)),
     date |-> NormalizeDate(RequiredDate(record, t))]

\* read_capa_data: every parsed line is validated
ValidateAll(table, t) == [i \in DOMAIN table |-> ValidateCapaRecord(table[i], t)]

\* the lines of a table before cleaning
RawRecordPool ==
    { Capa("CAPA2024001", "open", DateStr("dash", 2025, 6, 1, -1)),
      Capa("CAPA2024002", "", DateStr("dash", 2025, 6, 1, -1)),
      Capa("CAPA2024003", "", EmptyStr),
      Capa("CAPA2024004", "", DateStr("dash", 2023, 1, 15, -1)),
      Capa("CAPA2024005", "Done", DateStr("slash", 5, 20, 2025, -1)),
      Capa("CAPA2024006", "work in progress", DateStr("dash", 2025, 6, 1, -1)),
      Capa("CAPA2024007", "CLOSED", DateStr("dash", 2025, 6, 1, -1)),
      Capa("CAPA2024008", "OPEN", DateStr("dash", 2023, 1, 15, -1)) }

InitCapaRaw ==
    /\ now \in NowSet
    /\ capaTable \in SeqsUpTo(RawRecordPool, MaxCapaRecords)
    /\ capaReadable \in BOOLEAN
    /\ capaQuery = DefaultCapaQuery
    /\ capaPc = "idle"
    /\ capaOut = EmptyDict
    /\ NeoUnused
    /\ RunUnused
    /\ AppUnused
    /\ VecUnused
    /\ EmbUnused
    /\ MailUnused

\* one call of CapaAgent.process_query on a table that read_capa_data parses and cleans
CapaReadAndProcessQuery ==
    /\ capaPc = "idle"
    /\ capaOut' = ProcessQuery(capaQuery, capaReadable, ValidateAll(capaTable, now), now)
    /\ capaPc' = "done"
    /\ UNCHANGED <<now, capaTable, capaReadable, capaQuery>>
    /\ UNCHANGED <<neoVars, runVars, appVars, vecVars, embVars, mailVars>>

NextCapaRaw == CapaReadAndProcessQuery

SpecCapaRaw == InitCapaRaw /\ [][NextCapaRaw]_vars

\* C25: a record whose status field is missing or empty is given the status "UNKNOWN" by
\* _validate_capa_record, and process_query does not count it as an open CAPA.
C25_MissingStatusNotOpen ==
    (capaPc = "done" /\ capaOut.success) =>
        \A i \in DOMAIN capaTable :
            capaTable[i].status = "" =>
                /\ ValidateCapaRecord(capaTable[i], now).status = "UNKNOWN"
                /\ \A j \in DOMAIN capaOut.details :
                      capaOut.details[j].capa_id # capaTable[i].capa_id

-----------------------------------------------------------------------------
(* The mock channel: what is reported and what is logged *)

\* C26: in mock mode, whenever send_email reports success = true an entry for that
\* message, with its recipient and subject, has been appended to the mock email log; a
\* message whose log entry could not be written is not reported as sent.
C26_ReportedSentIsLogged ==
    (mailModule.mock_mode /\ mailOut.op = "send_email" /\ mailOut.value.success) =>
        /\ mailOut.logged = 1
        /\ mockLog # <<>>
        /\ mockLog[Len(mockLog)].to = mailOut.email_data.to
        /\ mockLog[Len(mockLog)].subject = mailOut.email_data.subject

====
